---- MODULE Spec2Model ----
(***************************************************************************)
(* BingeWatch content-extraction pipeline: the Freshness Cache             *)
(* (services/video_cache.py), the notifier that drives it                  *)
(* (services/notification_service.py), the Fetch Client                    *)
(* (scrapers/http_client.py) and the Episode Source                        *)
(* (scrapers/imdb_scraper.py, database/models.py).                         *)
(*                                                                         *)
(* Strings of the program that are only compared (video ids, the context   *)
(* part of a key) are TLA+ strings; strings that are parsed or formatted   *)
(* (episode codes) are sequences of one-character strings; a series name   *)
(* and a cache key, which are joined and matched at the "|" separator,     *)
(* are the sequences of their parts between the "|" characters.  A cache entry keeps the *)
(* fields the operations read, video_ids and last_checked; the fields no   *)
(* operation reads back (videos, new_count, total_found, first_checked)    *)
(* are left out.                                                           *)
(* Time is a logical clock counted in days.                                *)
(***************************************************************************)
EXTENDS Integers, Sequences, FiniteSets, TLC

VARIABLES
    inst_pc,        \* per cache instance: "none" (not constructed) or "loaded"
    inst_cache,     \* per cache instance: its _cache, loaded whole from the document
    writer,         \* the instance that wrote the document last, 0 before any write
    th_pc,          \* per thread, where its get_new_videos call stands: "idle",
                    \* "start", "filtered" (cached_ids read, new_videos computed),
                    \* "entry" (in _update_cache: entry fetched, existing_ids read),
                    \* "returned"
    th_videos,      \* per thread: the current_videos argument of its call
    th_cached_ids,  \* per thread: cached_ids
    th_existing_ids, \* per thread: existing_ids in _update_cache
    th_new_videos,  \* per thread: new_videos, the list its call returns
    overlapped,     \* a thread has taken a step while the other was inside its call
    CACHE_TTL_DAYS, \* settings.CACHE_TTL_DAYS: the default TTL, in days
    CACHE_AUTO_PRUNE, \* settings.CACHE_AUTO_PRUNE
    CACHE_PRUNE_THRESHOLD, \* settings.CACHE_PRUNE_THRESHOLD
    ttl_used,       \* the TTL the last prune_old_entries call worked with
    pruned,         \* what the last prune_old_entries or auto_prune_if_needed
                    \* call returned
    s_pc,           \* search_episode_videos / search_series_trailers: "idle", "loop"
                    \* (in the loop over the queries), "after" (the loop is over) or
                    \* "returned"
    operation,      \* which of the two searches runs: "episode" or "trailers"
    max_results,    \* the max_results argument
    queries,        \* the number of queries built
    query,          \* the position in queries of the query the loop is at
    yt_all_videos,  \* search_*: all_videos
    yt_seen_ids,    \* search_*: seen_ids
    yt_videos,      \* the list the last successful _search_youtube call returned
    searched,       \* how the last _search_youtube call ended: "ok", or the
                    \* exception it raised; "none" before the first call
    yt_found,       \* the list the search returned
    x_pc,           \* extract_videos: "idle", "primary" (about to call
                    \* _extract_from_initial_data), "decide" (it has returned),
                    \* "returned" or "raised"
    strategies,     \* the extraction strategies extract_videos has run, in order
    html,           \* the search page given to extract_videos: whether and how it
                    \* names ytInitialData, what json.loads makes of the captured
                    \* text, the videoRenderer objects of the document in the order
                    \* _find_video_renderers lists them, the videoId matches in the
                    \* raw text
    json_videos,    \* extract_videos: json_videos
    extracted,      \* the list extract_videos returned
    cache,          \* VideoCache._cache: key -> entry (a dict: partial function)
    disk,           \* the persisted document video_cache.json (same shape)
    now,            \* datetime.now(), in days
    file,           \* what the file video_cache.json holds: "mapping" (the
                    \* document in disk), or "missing", "unreadable",
                    \* "not_json", "number" (JSON that is no mapping: 5, null),
                    \* "list" (JSON that is no mapping: [])
    cache_type,     \* the Python type of VideoCache._cache: "dict" or "list"
    raised,         \* the exception that escaped the last cache operation
    last_write,     \* how the last _save_cache went: "ok", "refused" (the
                    \* file could not be opened), "partial" (the dump broke off)
    lastCall,       \* the cache operation that just returned: op, key,
                    \* current_videos, returned list
    track,          \* observer of one key's get_new_videos calls since its
                    \* entry was empty: n calls so far, ids of the first call,
                    \* list and result of the second
    returnedNew,    \* per key: ids returned as new since the entry was empty
    newTwice,       \* some id was returned as new a second time
    newInTwoCalls,  \* some id was returned as new by two calls
    runNo,          \* number of the check run in progress
    seen,           \* per key and id: "never", or returned by the Video Source
                    \* first in "this" run or in an "earlier" run
    missed,         \* a first-time video was left out of its run's Notification
    duplicated,     \* a Notification of a later run carried a video again
    ioFailed,       \* a read or write of the persisted document has failed
    f_pc,           \* _fetch_with_retry: "loop", "returned" or "raised"
    attempt,        \* the loop variable of `for attempt in range(MAX_RETRIES)`
    last_error,     \* last_error
    events,         \* what the fetch has done so far: attempts and waits, in order
    result,         \* the content returned or the FetchError raised
    advertised,     \* the charset of the response the last attempt received:
                    \* "absent", "valid", "invalid" (no such encoding), or
                    \* "none" when the attempt got no response
    last_episode,   \* the last-known episode code given, as characters
    e_pc,           \* get_new_episodes: "scan", "latest" (get_latest_episodes
                    \* has returned) or "done"
    season,         \* get_latest_episodes: season
    empty_seasons,  \* get_latest_episodes: empty_seasons
    all_episodes,   \* get_latest_episodes: all_episodes
    outcomes,       \* what each loop iteration met, season by season: the
                    \* candidates parsed from the page, or the exception
    latest,         \* the list get_latest_episodes returned
    new_episodes,   \* the list get_new_episodes returned
    c_pc,           \* code round trip: "code" or "pair" (the input given), "done"
    pair,           \* a (season, episode) pair to format
    parsed,         \* result of _parse_episode_code
    formatted,      \* result of Episode.episode_code
    p_pc,           \* IMDBEpisodeParser: "feed" (inside parser.feed) or "done"
    current_season, \* IMDBEpisodeParser.current_season
    episodes,       \* IMDBEpisodeParser.episodes
    current_episode,        \* IMDBEpisodeParser.current_episode
    in_episode_container,   \* IMDBEpisodeParser.in_episode_container
    in_title_element,       \* IMDBEpisodeParser.in_title_element
    in_date_element,        \* IMDBEpisodeParser.in_date_element
    depth_in_container,     \* IMDBEpisodeParser.depth_in_container
    token,          \* the token HTMLParser handed over last
    fed,            \* number of tokens handed over so far
    open_elements   \* the elements of the page open at this point, outermost
                    \* first, each by the kind of its start tag

apiGhost  == <<track, returnedNew, newTwice, newInTwoCalls>>
runGhost  == <<runNo, seen, missed, duplicated, ioFailed>>

fetchVars == <<f_pc, attempt, last_error, events, result, advertised>>
loadVars  == <<file, cache_type, raised, last_write>>
cacheVars == <<cache, disk, now, lastCall, apiGhost, runGhost, loadVars>>

vars == <<inst_pc, inst_cache, writer,
          th_pc, th_videos, th_cached_ids, th_existing_ids, th_new_videos, overlapped,
          CACHE_TTL_DAYS, CACHE_AUTO_PRUNE, CACHE_PRUNE_THRESHOLD, ttl_used, pruned,
          s_pc, operation, max_results, queries, query, yt_all_videos, yt_seen_ids,
          yt_videos, searched, yt_found,
          x_pc, strategies, html, json_videos, extracted,
          cache, disk, file, cache_type, raised, last_write, now, lastCall,
          track, returnedNew, newTwice, newInTwoCalls,
          runNo, seen, missed, duplicated, ioFailed,
          f_pc, attempt, last_error, events, result, advertised,
          last_episode, e_pc, season, empty_seasons, all_episodes, outcomes,
          latest, new_episodes,
          c_pc, pair, parsed, formatted,
          p_pc, current_season, episodes, current_episode, in_episode_container,
          in_title_element, in_date_element, depth_in_container, token, fed,
          open_elements>>

scanVars == <<e_pc, season, empty_seasons, all_episodes, outcomes, latest, new_episodes>>
tripVars == <<c_pc, pair, parsed, formatted>>

parserVars == <<p_pc, current_season, episodes, current_episode,
                in_episode_container, in_title_element, in_date_element,
                depth_in_container, token, fed, open_elements>>

extractVars == <<x_pc, strategies, html, json_videos, extracted>>

searchVars == <<s_pc, operation, max_results, queries, query, yt_all_videos, yt_seen_ids,
          yt_videos, searched, yt_found>>

pruneVars == <<CACHE_TTL_DAYS, CACHE_AUTO_PRUNE, CACHE_PRUNE_THRESHOLD, ttl_used, pruned>>

threadVars == <<th_pc, th_videos, th_cached_ids, th_existing_ids, th_new_videos, overlapped>>

sharedVars == <<inst_pc, inst_cache, writer>>

notCache == <<fetchVars, last_episode, scanVars, tripVars, parserVars, extractVars, searchVars, pruneVars, threadVars, sharedVars>>
notFetch == <<cacheVars, last_episode, scanVars, tripVars, parserVars, extractVars, searchVars, pruneVars, threadVars, sharedVars>>
notEpisodes == <<cacheVars, fetchVars, parserVars, extractVars, searchVars, pruneVars, threadVars, sharedVars>>
notParser == <<cacheVars, fetchVars, last_episode, scanVars, tripVars, extractVars, searchVars, pruneVars, threadVars, sharedVars>>

notExtract == <<cacheVars, fetchVars, last_episode, scanVars, tripVars, parserVars, searchVars, pruneVars, threadVars, sharedVars>>

notSearch == <<cacheVars, fetchVars, last_episode, scanVars, tripVars, parserVars, extractVars, pruneVars, threadVars, sharedVars>>

notPrune == <<fetchVars, last_episode, scanVars, tripVars, parserVars, extractVars, searchVars, threadVars, sharedVars>>

notThread == <<fetchVars, last_episode, scanVars, tripVars, parserVars, extractVars, searchVars, pruneVars, sharedVars>>

notShared == <<fetchVars, last_episode, scanVars, tripVars, parserVars, extractVars, searchVars, pruneVars, threadVars>>

----------------------------------------------------------------------------
(* Bounds *)

MaxLen == 2         \* longest current_videos list
MaxTime == 1        \* last value of the clock
MaxRuns == 3        \* check runs in one behaviour
MaxSeason == 3      \* last season number the scan may fetch
MaxDigits == 3      \* longest digit string in an episode code
MaxTokens == 6

Subjects == {<<"s1">>}                      \* series names
VideoIds == {"a", "b"}
NoCode == "None"                            \* episode_code=None
EpisodeCodes == {NoCode, "", "S01E01"}      \* episode_code arguments
Keys == {s \o <<c>> : s \in Subjects, c \in {"general", "S01E01"}}
TTLChoices == {0, 1}                        \* the days argument of prune_old_entries

VideoLists == UNION {[1..n -> VideoIds] : n \in 0..MaxLen}

Ids(videos) == {videos[i] : i \in 1..Len(videos)}

EmptyCache == [k \in {} |-> 0]

----------------------------------------------------------------------------
(* services/video_cache.py *)

\* VideoCache._make_key: "{series}|{code}", or "{series}|general" when the
\* code is None or empty (both falsy).
MakeKey(series_name, episode_code) ==
    IF episode_code # NoCode /\ episode_code # ""
    THEN series_name \o <<episode_code>>
    ELSE series_name \o <<"general">>

\* VideoCache.get_cached_video_ids
GetCachedVideoIds(c, key) ==
    IF key \in DOMAIN c THEN c[key].video_ids ELSE {}

NewVideos_all(current_videos, cached_ids) == current_videos

\* get_new_videos: [v for v in current_videos if v.video_id not in cached_ids]
NewVideos(current_videos, cached_ids) ==
    SelectSeq(current_videos, LAMBDA v : v \notin cached_ids)

UnionIds_replace(existing_ids, all_videos) == Ids(all_videos)

\* _update_cache: list(existing_ids | set(v.video_id for v in all_videos))
UnionIds(existing_ids, all_videos) == existing_ids \cup Ids(all_videos)

\* VideoCache._update_cache: get or create the entry, refresh last_checked,
\* union the ids in, store the entry.
UpdateCache(c, key, all_videos, t) ==
    LET entry == IF key \in DOMAIN c
                 THEN c[key]
                 ELSE [video_ids |-> {}, last_checked |-> t]
        updated == [entry EXCEPT !.last_checked = t,
                                 !.video_ids = UnionIds(entry.video_ids, all_videos)]
    IN  [k \in DOMAIN c \cup {key} |-> IF k = key THEN updated ELSE c[k]]

LoadCache_fresh(document, readOk) == EmptyCache

\* VideoCache._load_cache: the document when it can be read, else {}.
LoadCache(document, readOk) == IF readOk THEN document ELSE EmptyCache


\* VideoCache._save_cache: the document is rewritten whole; a failed write is
\* logged and leaves the document as it was.
SaveCache(document, c, writeOk) == IF writeOk THEN c ELSE document

\* an entry without last_checked
NoLastChecked == -1

IsEntryStale_fromTtlOn(c, key, ttl, t) ==
    IF key \notin DOMAIN c THEN TRUE
    ELSE IF c[key].last_checked = NoLastChecked THEN TRUE
    ELSE c[key].last_checked <= t - ttl

\* VideoCache.is_entry_stale: no entry, no last_checked, or
\* check_time < datetime.now() - timedelta(days=ttl)
IsEntryStale(c, key, ttl, t) ==
    IF key \notin DOMAIN c THEN TRUE
    ELSE IF c[key].last_checked = NoLastChecked THEN TRUE
    ELSE c[key].last_checked < t - ttl

\* VideoCache.clear_cache(key): del self._cache[key] when present
RemoveKey(c, key) == [k \in DOMAIN c \ {key} |-> c[k]]

\* VideoCache.prune_old_entries: the entries that stay
PruneEntries(c, ttl, t) ==
    [k \in {x \in DOMAIN c : ~IsEntryStale(c, x, ttl, t)} |-> c[k]]

----------------------------------------------------------------------------
(* scrapers/http_client.py *)

MAX_RETRIES == 3
RETRY_DELAY == 1

NoError == [type |-> "None", code |-> 0]
HTTPError(code) == [type |-> "HTTPError", code |-> code]
URLError == [type |-> "URLError", code |-> 0]
TimeoutError == [type |-> "TimeoutError", code |-> 0]
LookupError == [type |-> "LookupError", code |-> 0]
UnicodeDecodeError == [type |-> "UnicodeDecodeError", code |-> 0]
Unexpected == [type |-> "Exception", code |-> 0]
NoStatus == 0                                \* status_code=None

HttpCodes == {400, 404, 429, 499, 500, 503}  \* statuses urlopen reports as HTTPError

IsClientError_listed(code) == code \in {403, 404, 429}

\* _fetch_with_retry: `if 400 <= e.code < 500`
IsClientError(code) == 400 <= code /\ code < 500

WaitTime_fixed(n) == RETRY_DELAY

\* _fetch_with_retry: wait_time = RETRY_DELAY * (2 ** attempt)
WaitTime(n) == RETRY_DELAY * (2 ^ n)

ShouldWait_always(n) == TRUE

\* _fetch_with_retry: `if attempt < MAX_RETRIES - 1`
ShouldWait(n) == n < MAX_RETRIES - 1

AttemptEvent(outcome) == [kind |-> "attempt", outcome |-> outcome, delay |-> 0]
WaitEvent(delay) == [kind |-> "wait", outcome |-> NoError, delay |-> delay]
Content == [kind |-> "content", status_code |-> NoStatus, original_error |-> NoError]
NoResult == [kind |-> "none", status_code |-> NoStatus, original_error |-> NoError]

\* FetchError(message, status_code, original_error)
FetchError(status_code, original_error) ==
    [kind |-> "FetchError", status_code |-> status_code,
     original_error |-> original_error]

FetchIdle ==
    /\ f_pc = "idle"
    /\ attempt = 0
    /\ last_error = NoError
    /\ events = <<>>
    /\ result = NoResult
    /\ advertised = "none"

----------------------------------------------------------------------------
(* scrapers/imdb_scraper.py and database/models.py: episode codes *)

DigitSeq == <<"0", "1", "2", "3", "4", "5", "6", "7", "8", "9">>
IsDigit(ch) == \E d \in 1..10 : DigitSeq[d] = ch
DigitVal(ch) == (CHOOSE d \in 1..10 : DigitSeq[d] = ch) - 1

RECURSIVE IntOf(_)
\* int("...") of a digit string
IntOf(ds) ==
    IF ds = <<>> THEN 0
    ELSE 10 * IntOf(SubSeq(ds, 1, Len(ds) - 1)) + DigitVal(ds[Len(ds)])

RECURSIVE ToDigits(_)
\* the decimal digits of n >= 0
ToDigits(n) ==
    IF n < 10 THEN <<DigitSeq[n + 1]>>
    ELSE ToDigits(n \div 10) \o <<DigitSeq[(n % 10) + 1]>>

\* the format spec :02d
Pad2(n) == IF n < 10 THEN <<"0">> \o ToDigits(n) ELSE ToDigits(n)

\* Episode.episode_code: f"S{self.season:02d}E{self.episode:02d}"
FormatEpisodeCode(s, e) == <<"S">> \o Pad2(s) \o <<"E">> \o Pad2(e)

None == -1
NoParse == <<None, None>>

\* the digits that \d{1,2} takes at position i: 0, 1 or 2 of them
RunLen(c, i) ==
    IF i > Len(c) \/ ~IsDigit(c[i]) THEN 0
    ELSE IF i + 1 > Len(c) \/ ~IsDigit(c[i + 1]) THEN 1
    ELSE 2

ParseEpisodeCode_anyLength(c) ==
    IF \E i \in 3..(Len(c) - 1) :
            /\ c[1] \in {"S", "s"} /\ c[i] \in {"E", "e"}
            /\ \A j \in (2..(i - 1)) \cup ((i + 1)..Len(c)) : IsDigit(c[j])
    THEN LET i == CHOOSE i \in 3..(Len(c) - 1) : c[i] \in {"E", "e"}
         IN  <<IntOf(SubSeq(c, 2, i - 1)), IntOf(SubSeq(c, i + 1, Len(c)))>>
    ELSE NoParse

\* IMDBScraper._parse_episode_code:
\*   re.match(r'S(\d{1,2})E(\d{1,2})', code, re.IGNORECASE)
\* matches at the start of the code only and ignores what follows the match.
\* Giving back a digit of the first group never helps (the next character is
\* then a digit, not E), so the first group is the whole run of up to two
\* digits.
ParseEpisodeCode(c) ==
    LET n1 == RunLen(c, 2)
        posE == 2 + n1
        n2 == RunLen(c, posE + 1)
    IN  IF /\ Len(c) >= 1 /\ c[1] \in {"S", "s"}
           /\ n1 >= 1
           /\ posE <= Len(c) /\ c[posE] \in {"E", "e"}
           /\ n2 >= 1
        THEN <<IntOf(SubSeq(c, 2, posE - 1)), IntOf(SubSeq(c, posE + 1, posE + n2))>>
        ELSE NoParse

EpisodeLt_seasonOnly(a, b) == a.season < b.season

\* Episode.__lt__
EpisodeLt(a, b) ==
    IF a.season # b.season THEN a.season < b.season ELSE a.episode < b.episode

\* where a stable sort puts e in a sorted list: before the first x with e < x
InsertSorted(sorted, e) ==
    LET later == {i \in 1..Len(sorted) : EpisodeLt(e, sorted[i])}
        at == IF later = {} THEN Len(sorted) + 1
              ELSE CHOOSE i \in later : \A j \in later : i <= j
    IN  SubSeq(sorted, 1, at - 1) \o <<e>> \o SubSeq(sorted, at, Len(sorted))

RECURSIVE SortEpisodes(_)
\* all_episodes.sort(): stable, by Episode.__lt__
SortEpisodes(eps) ==
    IF eps = <<>> THEN <<>>
    ELSE InsertSorted(SortEpisodes(SubSeq(eps, 1, Len(eps) - 1)), eps[Len(eps)])

IsNewer_orSame(ep, last_season, last_ep_num) ==
    \/ ep.season > last_season
    \/ ep.season = last_season /\ ep.episode >= last_ep_num

\* get_new_episodes: (episode.season, episode.episode) > (last_season, last_ep_num)
IsNewer(ep, last_season, last_ep_num) ==
    \/ ep.season > last_season
    \/ ep.season = last_season /\ ep.episode > last_ep_num

NewEpisodes_failClosed(last_code, eps) ==
    LET last == ParseEpisodeCode(last_code)
    IN  IF last[1] = None THEN <<>>
        ELSE SelectSeq(eps, LAMBDA ep : IsNewer(ep, last[1], last[2]))

\* IMDBScraper.get_new_episodes, given the list get_latest_episodes returned
NewEpisodes(last_code, eps) ==
    LET last == ParseEpisodeCode(last_code)
    IN  IF last[1] = None THEN eps
        ELSE SelectSeq(eps, LAMBDA ep : IsNewer(ep, last[1], last[2]))

max_empty_seasons == 2

EmptySeasonsAfter_noReset(season_episodes, count) ==
    IF season_episodes # <<>> THEN count ELSE count + 1

\* get_latest_episodes: empty_seasons = 0 after a page with episodes,
\* empty_seasons += 1 after a page without
EmptySeasonsAfter(season_episodes, count) ==
    IF season_episodes # <<>> THEN 0 ELSE count + 1

\* get_latest_episodes: Episode(season=parsed_ep.season or season,
\*                              episode=parsed_ep.episode or 0)
ToEpisode(parsed_ep, scanned) ==
    [season |-> IF parsed_ep.season # 0 THEN parsed_ep.season ELSE scanned,
     episode |-> parsed_ep.episode]

RECURSIVE ToEpisodes(_, _)
ToEpisodes(season_episodes, scanned) ==
    IF season_episodes = <<>> THEN <<>>
    ELSE <<ToEpisode(Head(season_episodes), scanned)>>
            \o ToEpisodes(Tail(season_episodes), scanned)

\* what one iteration of the scan loop met
Parsed(season_episodes) == [kind |-> "page", candidates |-> season_episodes]
FetchFailed == [kind |-> "FetchError", candidates |-> <<>>]
ParseFailed == [kind |-> "Exception", candidates |-> <<>>]

OnFetchError_keepNothing(eps, failed_season) == <<>>

\* except FetchError: return [] when nothing was collected and the season
\* is 1, else break (and fall through to the sort and the return)
OnFetchError(eps, failed_season) ==
    IF eps = <<>> /\ failed_season = 1 THEN <<>> ELSE SortEpisodes(eps)

EpisodesIdle ==
    /\ last_episode = <<>>
    /\ e_pc = "idle"
    /\ season = 1
    /\ empty_seasons = 0
    /\ all_episodes = <<>>
    /\ outcomes = <<>>
    /\ latest = <<>>
    /\ new_episodes = <<>>

\* ParsedEpisode.is_valid
IsValid_seasonOnly(ep) == ep.season # None

IsValid(ep) == ep.season # None /\ ep.episode # None

\* ParsedEpisode.air_date = None
NoDate == "None"
\* current_episode = None: no candidate is being built
NoCandidate == [season |-> None, episode |-> None, air_date |-> NoDate]
\* ParsedEpisode(season=self.current_season)
NewCandidate(of_season) ==
    [season |-> of_season, episode |-> None, air_date |-> NoDate]

NoToken == [type |-> "none", what |-> ""]

\* Text nodes of a page.  For each: whether 'S' in data.upper(), what each
\* of the three patterns of _extract_episode_code finds in it, and whether
\* _looks_like_date holds for it.
Texts == {"S1.E1", "S2.E1", "1x02", "Specials", "Pilot", " "}
TextNodes == {"S1.E1", "1x02", "Season 2 Episode 3", "S1E2 1x03",
              "Jan 20, 2008", "Feb 3, 2009", "Rate", " "}
ContainsS(data) ==
    data \in {"S1.E1", "S2.E1", "Specials", "Season 2 Episode 3", "S1E2 1x03"}
\* re.search(r'S(\d{1,2})[.\s]*E(\d{1,2})', text, re.IGNORECASE)
Pattern1(data) ==
    CASE data = "S1.E1"     -> <<1, 1>>
      [] data = "S2.E1"     -> <<2, 1>>
      [] data = "S1E2 1x03" -> <<1, 2>>
      [] OTHER              -> NoParse
\* re.search(r'(\d{1,2})x(\d{1,2})', text, re.IGNORECASE)
Pattern2(data) ==
    CASE data = "1x02"      -> <<1, 2>>
      [] data = "S1E2 1x03" -> <<1, 3>>
      [] OTHER              -> NoParse
\* re.search(r'Season\s*(\d+)\s*Episode\s*(\d+)', text, re.IGNORECASE)
Pattern3(data) ==
    CASE data = "Season 2 Episode 3" -> <<2, 3>>
      [] OTHER                       -> NoParse

\* _extract_episode_code: the first of the three patterns that matches
ExtractEpisodeCode(data) ==
    IF Pattern1(data) # NoParse THEN Pattern1(data)
    ELSE IF Pattern2(data) # NoParse THEN Pattern2(data)
    ELSE Pattern3(data)
\* _looks_like_date: a month name and a year in the text
LooksLikeDate(data) == data \in {"Jan 20, 2008", "Feb 3, 2009"}
\* data.strip()
Strip(data) == IF data = " " THEN "" ELSE data

\* start tags by what handle_starttag does with them: a tag whose class
\* holds an episode container indicator, an h3 or a with a title class,
\* any other tag; "void" is any other tag of an element that has no end tag
\* (<img>, <br>, <input>), for which HTMLParser calls handle_starttag alone;
\* end tags: of h3 or a, of any other tag
StartTags == {"container", "title", "other", "void"}
EndTags == {"h3", "other"}
\* "date" is a span whose class holds metadata, date or airdate, "span" any
\* other span; end tags: of h3 or a, of span
TextStartTags == {"container", "title", "date", "span"}
TextEndTags == {"h3", "span"}

ParserIdle ==
    /\ p_pc = "idle"
    /\ current_season = 1
    /\ episodes = <<>>
    /\ current_episode = NoCandidate
    /\ in_episode_container = FALSE
    /\ in_title_element = FALSE
    /\ in_date_element = FALSE
    /\ depth_in_container = 0
    /\ token = NoToken
    /\ fed = 0
    /\ open_elements = <<>>

ExtractIdle ==
    /\ x_pc = "idle"
    /\ strategies = <<>>
    /\ html = [marker |-> "absent", blob |-> "none", renderers |-> <<>>,
               matches |-> <<>>]
    /\ json_videos = <<>>
    /\ extracted = <<>>

SearchIdle ==
    /\ s_pc = "idle"
    /\ operation = "episode"
    /\ max_results = 1
    /\ queries = 0
    /\ query = 1
    /\ yt_all_videos = <<>>
    /\ yt_seen_ids = {}
    /\ yt_videos = <<>>
    /\ searched = "none"
    /\ yt_found = <<>>

PruneIdle ==
    /\ CACHE_TTL_DAYS = 1
    /\ CACHE_AUTO_PRUNE = TRUE
    /\ CACHE_PRUNE_THRESHOLD = 1
    /\ ttl_used = 0
    /\ pruned = 0

ThreadsIdle ==
    /\ th_pc = [t \in {1, 2} |-> "idle"]
    /\ th_videos = [t \in {1, 2} |-> <<>>]
    /\ th_cached_ids = [t \in {1, 2} |-> {}]
    /\ th_existing_ids = [t \in {1, 2} |-> {}]
    /\ th_new_videos = [t \in {1, 2} |-> <<>>]
    /\ overlapped = FALSE

SharedIdle ==
    /\ inst_pc = [i \in {1, 2} |-> "none"]
    /\ inst_cache = [i \in {1, 2} |-> [k \in {} |-> 0]]
    /\ writer = 0

TripIdle ==
    /\ c_pc = "idle"
    /\ pair = <<0, 0>>
    /\ parsed = NoParse
    /\ formatted = <<>>

----------------------------------------------------------------------------
(* Bookkeeping of the cache API specification *)

Count(videos, v) == Cardinality({i \in 1..Len(videos) : videos[i] = v})

NoKey == <<"", "">>
Idle == [key |-> NoKey, n |-> 0, first |-> {}, second |-> <<>>]
NoCall(op) == [op |-> op, key |-> NoKey, cur |-> <<>>, ret |-> <<>>]

\* The observer follows the calls on the key it watches: first call (entry
\* empty), second call, third call with the list of the second.
TrackCall(key, wasEmpty, watch, current_videos) ==
    IF wasEmpty /\ watch
    THEN [key |-> key, n |-> 1, first |-> Ids(current_videos), second |-> <<>>]
    ELSE IF track.key # key THEN track
    ELSE IF track.n = 1
    THEN [track EXCEPT !.n = 2, !.second = current_videos]
    ELSE IF track.n = 2 /\ current_videos = track.second
    THEN [track EXCEPT !.n = 3]
    ELSE Idle

\* Observation restarts for the keys whose entry is gone.
ResetGhost(newCache) ==
    /\ track' = IF track.key \in DOMAIN newCache THEN track ELSE Idle
    /\ returnedNew' = [k \in Keys |-> IF k \in DOMAIN newCache
                                      THEN returnedNew[k] ELSE {}]
    /\ UNCHANGED <<newTwice, newInTwoCalls>>

InitCache ==
    /\ cache = EmptyCache
    /\ disk = EmptyCache
    /\ file = "mapping"
    /\ cache_type = "dict"
    /\ raised = "none"
    /\ last_write = "none"
    /\ now = 0
    /\ lastCall = NoCall("init")
    /\ track = Idle
    /\ returnedNew = [k \in Keys |-> {}]
    /\ newTwice = FALSE
    /\ newInTwoCalls = FALSE
    /\ runNo = 1
    /\ seen = [k \in Keys |-> [v \in VideoIds |-> "never"]]
    /\ missed = FALSE
    /\ duplicated = FALSE
    /\ ioFailed = FALSE

----------------------------------------------------------------------------
(* Actions of the cache API.  The document store is healthy here: every    *)
(* write succeeds, so the document follows the in-memory cache.            *)

\* VideoCache.get_new_videos(series_name, episode_code, current_videos)
GetNewVideos(series_name, episode_code, current_videos, watch) ==
    LET key == MakeKey(series_name, episode_code)
        cached_ids == GetCachedVideoIds(cache, key)
        new_videos == NewVideos(current_videos, cached_ids)
    IN  /\ cache' = UpdateCache(cache, key, current_videos, now)
        /\ disk' = SaveCache(disk, cache', TRUE)
        /\ lastCall' = [op |-> "get", key |-> key, cur |-> current_videos,
                        ret |-> new_videos]
        /\ track' = TrackCall(key, cached_ids = {}, watch, current_videos)
        /\ returnedNew' = [returnedNew EXCEPT ![key] = @ \cup Ids(new_videos)]
        /\ newTwice' = (newTwice \/ \E v \in VideoIds :
                            Count(new_videos, v)
                              + (IF v \in returnedNew[key] THEN 1 ELSE 0) >= 2)
        /\ newInTwoCalls' = (newInTwoCalls
                                \/ Ids(new_videos) \cap returnedNew[key] # {})
        /\ UNCHANGED <<now, runGhost, loadVars, notCache>>

\* VideoCache.clear_cache(key)
ClearCacheKey(key) ==
    /\ cache' = RemoveKey(cache, key)
    /\ disk' = SaveCache(disk, cache', TRUE)
    /\ lastCall' = [NoCall("clear") EXCEPT !.key = key]
    /\ ResetGhost(cache')
    /\ UNCHANGED <<now, runGhost, loadVars, notCache>>

\* VideoCache.clear_cache(None)
ClearCacheAll ==
    /\ cache' = EmptyCache
    /\ disk' = SaveCache(disk, cache', TRUE)
    /\ lastCall' = NoCall("clear")
    /\ ResetGhost(cache')
    /\ UNCHANGED <<now, runGhost, loadVars, notCache>>

\* VideoCache.prune_old_entries(days): saves only when something was removed
PruneOldEntries(days) ==
    /\ cache' = PruneEntries(cache, days, now)
    /\ disk' = IF DOMAIN cache' # DOMAIN cache
               THEN SaveCache(disk, cache', TRUE) ELSE disk
    /\ lastCall' = NoCall("prune")
    /\ ResetGhost(cache')
    /\ UNCHANGED <<now, runGhost, loadVars, notCache>>

\* the clock advances between operations
Tick ==
    /\ now < MaxTime
    /\ now' = now + 1
    /\ lastCall' = NoCall("tick")
    /\ UNCHANGED <<cache, disk, apiGhost, runGhost, loadVars, notCache>>

Init == InitCache /\ FetchIdle /\ EpisodesIdle /\ TripIdle /\ ParserIdle /\ ExtractIdle /\ SearchIdle /\ PruneIdle /\ ThreadsIdle /\ SharedIdle

Next ==
    \/ \E s \in Subjects, e \in EpisodeCodes, cur \in VideoLists, w \in BOOLEAN :
            GetNewVideos(s, e, cur, w)
    \/ \E k \in Keys : ClearCacheKey(k)
    \/ ClearCacheAll
    \/ \E d \in TTLChoices : PruneOldEntries(d)
    \/ Tick

Spec == Init /\ [][Next]_vars

----------------------------------------------------------------------------
(* Claims on the cache API (specification Spec) *)

JustReturned(key) == lastCall.op = "get" /\ lastCall.key = key

\* C1: on a key whose entry was empty, after a call with A and a call with B
\* the second call has returned exactly the videos of B whose id is not in
\* A, and a third call with the same B has returned the empty list.
C1_SecondReturnsDifferenceThirdEmpty ==
    /\ (track.n = 2 /\ JustReturned(track.key)) =>
            /\ lastCall.cur = track.second
            /\ lastCall.ret = SelectSeq(track.second, LAMBDA v : v \notin track.first)
    /\ (track.n = 3 /\ JustReturned(track.key)) =>
            /\ lastCall.cur = track.second
            /\ lastCall.ret = <<>>

\* A then B then B has just run, B overlapping A and bringing a new id.
C1_Witness ==
    /\ track.n = 3
    /\ JustReturned(track.key)
    /\ Ids(track.second) \cap track.first # {}
    /\ Ids(track.second) \ track.first # {}

\* C2: over the get_new_videos calls on a key since its entry was empty, no
\* video id is returned as new more than once (occurrences are counted, so
\* an id that comes twice in one returned list is returned twice).
C2_EachIdNewAtMostOnce == newTwice = FALSE

\* Side result for C2: no id is returned as new by two different calls.
NewInAtMostOneCall == newInTwoCalls = FALSE

\* C3: a get_new_videos step leaves the key's stored id set equal to the set
\* before the call united with the ids of the call's current videos; no step
\* other than a clear or a prune removes an entry or an id.
C3_StoredIdsAreUnion ==
    [][ /\ lastCall'.op = "get" =>
            /\ lastCall'.key \in DOMAIN cache'
            /\ cache'[lastCall'.key].video_ids =
                    GetCachedVideoIds(cache, lastCall'.key) \cup Ids(lastCall'.cur)
        /\ lastCall'.op \notin {"clear", "prune"} =>
            \A k \in DOMAIN cache :
                /\ k \in DOMAIN cache'
                /\ cache[k].video_ids \subseteq cache'[k].video_ids
                /\ Cardinality(cache'[k].video_ids) >= Cardinality(cache[k].video_ids)
      ]_vars

\* A call has just added ids to an entry that held other ids before.
C3_Witness ==
    /\ lastCall.op = "get"
    /\ lastCall.ret # <<>>
    /\ lastCall.key \in DOMAIN cache
    /\ cache[lastCall.key].video_ids \ Ids(lastCall.cur) # {}

----------------------------------------------------------------------------
(* services/notification_service.py: repeated check runs.  Each run is a   *)
(* new process that loads the persisted document; reads and writes of the  *)
(* document may fail.  No operation of a run reads a timestamp, so the     *)
(* clock stands still here.                                                *)

\* NotificationService._check_episode and _check_series_general: search,
\* return None on an empty result, else compare against the cache and build
\* a Notification when something is new.
CheckVideos(series_name, episode_code, all_videos, writeOk) ==
    IF all_videos = <<>>
    THEN UNCHANGED vars
    ELSE
    LET key == MakeKey(series_name, episode_code)
        cached_ids == GetCachedVideoIds(cache, key)
        new_videos == NewVideos(all_videos, cached_ids)
        notified == Ids(new_videos)      \* ids carried by the Notification, if any
    IN  /\ cache' = UpdateCache(cache, key, all_videos, now)
        /\ disk' = SaveCache(disk, cache', writeOk)
        /\ lastCall' = [op |-> "check", key |-> key, cur |-> all_videos,
                        ret |-> new_videos]
        /\ ioFailed' = (ioFailed \/ ~writeOk)
        /\ seen' = [seen EXCEPT ![key] =
                        [v \in VideoIds |-> IF v \in Ids(all_videos) /\ @[v] = "never"
                                            THEN "this" ELSE @[v]]]
        /\ missed' = (missed \/ \E v \in Ids(all_videos) :
                                    seen[key][v] = "never" /\ v \notin notified)
        /\ duplicated' = (duplicated \/ \E v \in notified : seen[key][v] = "earlier")
        /\ UNCHANGED <<now, runNo, apiGhost, loadVars, notCache>>

\* NotificationService._check_episode(series_name, episode.episode_code, ...)
CheckEpisode(series_name, episode_code, all_videos, writeOk) ==
    CheckVideos(series_name, episode_code, all_videos, writeOk)

\* NotificationService._check_series_general(series_name): episode_code=None
CheckSeriesGeneral(series_name, all_videos, writeOk) ==
    CheckVideos(series_name, NoCode, all_videos, writeOk)

\* The next run: NotificationService.__init__ builds VideoCache(), which loads
\* the document.
StartRun(readOk) ==
    /\ runNo < MaxRuns
    /\ runNo' = runNo + 1
    /\ cache' = LoadCache(disk, readOk)
    /\ ioFailed' = (ioFailed \/ ~readOk)
    /\ seen' = [k \in Keys |-> [v \in VideoIds |->
                    IF seen[k][v] = "this" THEN "earlier" ELSE seen[k][v]]]
    /\ lastCall' = NoCall("load")
    /\ UNCHANGED <<disk, now, missed, duplicated, apiGhost, loadVars, notCache>>

FormattedCodes == {"S01E01"}        \* Episode.episode_code values checked

InitRuns == InitCache /\ FetchIdle /\ EpisodesIdle /\ TripIdle /\ ParserIdle /\ ExtractIdle /\ SearchIdle /\ PruneIdle /\ ThreadsIdle /\ SharedIdle

NextRuns ==
    \/ \E s \in Subjects, e \in FormattedCodes, cur \in VideoLists, w \in BOOLEAN :
            CheckEpisode(s, e, cur, w)
    \/ \E s \in Subjects, cur \in VideoLists, w \in BOOLEAN :
            CheckSeriesGeneral(s, cur, w)
    \/ \E r \in BOOLEAN : StartRun(r)

SpecRuns == InitRuns /\ [][NextRuns]_vars

----------------------------------------------------------------------------
(* Clearing, on a cache that holds entries of several series.  A series    *)
(* name is free text (validate_series_name only strips it and asks for two *)
(* characters), so it may itself hold the "|" that separates it from the   *)
(* context in a key.                                                       *)

ClearSubjects == {<<"ab">>, <<"ab", "cd">>, <<"xy">>}
ClearKeys == {s \o <<c>> : s \in ClearSubjects, c \in {"general", "S01E01"}}
Caches ==
    {[k \in ks |-> [video_ids |-> {"a"}, last_checked |-> 0]] :
        ks \in SUBSET ClearKeys}

\* key.startswith(f"{series_name}|"): the parts of the name are the first
\* parts of the key, and the key goes on after them
StartsWith(key, series_name) ==
    /\ Len(key) > Len(series_name)
    /\ SubSeq(key, 1, Len(series_name)) = series_name

\* NotificationService.clear_cache(series_name): VideoCache.clear_cache(key)
\* for every key that starts with the name and "|", each call saving the
\* document; with an empty name, VideoCache.clear_cache()
ClearSeries(series_name) ==
    LET matching == IF series_name = <<"">> THEN DOMAIN cache
                    ELSE {k \in DOMAIN cache : StartsWith(k, series_name)}
    IN  /\ cache' = [k \in DOMAIN cache \ matching |-> cache[k]]
        /\ disk' = IF matching # {} \/ series_name = <<"">>
                   THEN SaveCache(disk, cache', TRUE) ELSE disk
        /\ lastCall' = [NoCall("clear_series") EXCEPT !.key = series_name]
        /\ ResetGhost(cache')
        /\ UNCHANGED <<now, runGhost, loadVars, notCache>>

InitClear ==
    /\ FetchIdle /\ EpisodesIdle /\ TripIdle /\ ParserIdle /\ ExtractIdle /\ SearchIdle /\ PruneIdle /\ ThreadsIdle /\ SharedIdle
    /\ disk \in Caches
    /\ cache = disk
    /\ file = "mapping"
    /\ cache_type = "dict"
    /\ raised = "none"
    /\ last_write = "none"
    /\ lastCall = NoCall("init")
    /\ now = 0
    /\ track = Idle
    /\ returnedNew = [k \in Keys |-> {}]
    /\ newTwice = FALSE
    /\ newInTwoCalls = FALSE
    /\ runNo = 1
    /\ seen = [k \in Keys |-> [v \in VideoIds |-> "never"]]
    /\ missed = FALSE
    /\ duplicated = FALSE
    /\ ioFailed = FALSE

NextClear ==
    \/ \E k \in ClearKeys : ClearCacheKey(k)
    \/ \E n \in ClearSubjects : ClearSeries(n)
    \/ ClearCacheAll

SpecClear == InitClear /\ [][NextClear]_vars

\* reading a key: the subject is what stands before the context, its last part
SubjectOf(key) == SubSeq(key, 1, Len(key) - 1)
Without(c, keys) == [k \in DOMAIN c \ keys |-> c[k]]

\* C16: clearing a key removes that key's entry and no other; clearing a
\* subject removes the entries whose subject is the given one, whatever
\* their context, and no entry of another subject; clearing everything
\* leaves the cache empty; every entry not removed is unchanged.
C16_ClearRemovesExactlyTargets ==
    [][/\ (lastCall'.op = "clear" /\ lastCall'.key # NoKey) =>
              cache' = Without(cache, {lastCall'.key})
       /\ (lastCall'.op = "clear_series") =>
              cache' = Without(cache, {k \in DOMAIN cache :
                                            SubjectOf(k) = lastCall'.key})
       /\ (lastCall'.op = "clear" /\ lastCall'.key = NoKey) =>
              cache' = EmptyCache]_vars

\* What holds instead: clearing a subject removes the entries whose key
\* starts with the name and "|", which are those of the subject and those
\* of every subject whose name goes on after that "|".
ClearRemovesPrefixMatches ==
    [][/\ (lastCall'.op = "clear" /\ lastCall'.key # NoKey) =>
              cache' = Without(cache, {lastCall'.key})
       /\ (lastCall'.op = "clear_series") =>
              cache' = Without(cache, {k \in DOMAIN cache :
                            \E m \in 1..(Len(k) - 1) :
                                SubSeq(k, 1, m) = lastCall'.key})
       /\ (lastCall'.op = "clear" /\ lastCall'.key = NoKey) =>
              cache' = EmptyCache]_vars

----------------------------------------------------------------------------
(* The cache on a document store that can fail: the file may hold anything *)
(* when a VideoCache is built, and every write may fail.                   *)

FileKinds == {"mapping", "missing", "unreadable", "not_json", "number", "list"}
WriteOutcomes == {"ok", "refused", "partial"}

\* VideoCache._load_cache, the type of what it leaves in _cache: a missing
\* file, an I/O error and a JSONDecodeError give {}; JSON that is a number
\* (or null) gives {} too, because len(self._cache) in the log line raises
\* inside the try; JSON that is a list is kept as it is.
LoadedType(kind) == IF kind = "list" THEN "list" ELSE "dict"
\* the entries _load_cache leaves in _cache
LoadedEntries(kind, document) == IF kind = "mapping" THEN document ELSE EmptyCache

\* VideoCache._save_cache, what the file holds afterwards: the dumped value,
\* what it held before when it could not be opened, a broken document when
\* json.dump stopped part way
SavedKind(kind, value_type, outcome) ==
    CASE outcome = "ok"      -> IF value_type = "dict" THEN "mapping" ELSE "list"
      [] outcome = "refused" -> kind
      [] outcome = "partial" -> "not_json"
SavedDocument(kind, document, c, value_type, outcome) ==
    IF SavedKind(kind, value_type, outcome) # "mapping" THEN EmptyCache
    ELSE IF outcome = "ok" THEN c ELSE document

Save(c, value_type, outcome) ==
    /\ file' = SavedKind(file, value_type, outcome)
    /\ disk' = SavedDocument(file, disk, c, value_type, outcome)
    /\ last_write' = outcome

\* VideoCache(): __init__ loads the file
NewVideoCache ==
    /\ cache' = LoadedEntries(file, disk)
    /\ cache_type' = LoadedType(file)
    /\ raised' = "none"
    /\ last_write' = "none"
    /\ lastCall' = NoCall("load")
    /\ UNCHANGED <<file, disk, now, apiGhost, runGhost, notCache>>

\* get_new_videos: on a _cache that is a list, self._cache.get raises
\* AttributeError in get_cached_video_ids, before anything is changed
GetNewVideosOnFile(series_name, episode_code, current_videos, outcome) ==
    LET key == MakeKey(series_name, episode_code)
        cached_ids == GetCachedVideoIds(cache, key)
    IN  IF cache_type = "list"
        THEN /\ raised' = "AttributeError"
             /\ lastCall' = [op |-> "get", key |-> key, cur |-> current_videos,
                             ret |-> <<>>]
             /\ UNCHANGED <<cache, cache_type, file, disk, last_write,
                            now, apiGhost, runGhost, notCache>>
        ELSE /\ cache' = UpdateCache(cache, key, current_videos, now)
             /\ Save(cache', cache_type, outcome)
             /\ raised' = "none"
             /\ lastCall' = [op |-> "get", key |-> key, cur |-> current_videos,
                             ret |-> NewVideos(current_videos, cached_ids)]
             /\ UNCHANGED <<cache_type, now, apiGhost, runGhost, notCache>>

\* clear_cache(key): on the list [] the key is not `in` it, nothing is
\* deleted, and the list is written back
ClearCacheKeyOnFile(key, outcome) ==
    /\ cache' = RemoveKey(cache, key)
    /\ Save(cache', cache_type, outcome)
    /\ raised' = "none"
    /\ lastCall' = [NoCall("clear") EXCEPT !.key = key]
    /\ UNCHANGED <<cache_type, now, apiGhost, runGhost, notCache>>

\* clear_cache(): self._cache = {}
ClearCacheAllOnFile(outcome) ==
    /\ cache' = EmptyCache
    /\ cache_type' = "dict"
    /\ Save(cache', cache_type', outcome)
    /\ raised' = "none"
    /\ lastCall' = NoCall("clear")
    /\ UNCHANGED <<now, apiGhost, runGhost, notCache>>

Documents ==
    {EmptyCache}
      \cup {[k \in {key} |-> [video_ids |-> ids, last_checked |-> 0]] :
                key \in Keys, ids \in {{"a"}, {"a", "b"}}}

InitLoad ==
    /\ FetchIdle /\ EpisodesIdle /\ TripIdle /\ ParserIdle /\ ExtractIdle /\ SearchIdle /\ PruneIdle /\ ThreadsIdle /\ SharedIdle
    /\ file \in FileKinds
    /\ disk \in (IF file = "mapping" THEN Documents ELSE {EmptyCache})
    /\ cache = LoadedEntries(file, disk)
    /\ cache_type = LoadedType(file)
    /\ raised = "none"
    /\ last_write = "none"
    /\ lastCall = NoCall("load")
    /\ now = 0
    /\ track = Idle
    /\ returnedNew = [k \in Keys |-> {}]
    /\ newTwice = FALSE
    /\ newInTwoCalls = FALSE
    /\ runNo = 1
    /\ seen = [k \in Keys |-> [v \in VideoIds |-> "never"]]
    /\ missed = FALSE
    /\ duplicated = FALSE
    /\ ioFailed = FALSE

NextLoad ==
    \/ NewVideoCache
    \/ \E s \in Subjects, e \in {NoCode, "S01E01"}, cur \in VideoLists,
          w \in WriteOutcomes : GetNewVideosOnFile(s, e, cur, w)
    \/ \E k \in Keys, w \in WriteOutcomes : ClearCacheKeyOnFile(k, w)
    \/ \E w \in WriteOutcomes : ClearCacheAllOnFile(w)

SpecLoad == InitLoad /\ [][NextLoad]_vars

\* what the claims say a get_new_videos call returns and stores
ReturnsAndStores(c, c2, call) ==
    /\ call.ret = SelectSeq(call.cur,
                            LAMBDA v : v \notin GetCachedVideoIds(c, call.key))
    /\ call.key \in DOMAIN c2
    /\ c2[call.key].video_ids = GetCachedVideoIds(c, call.key) \cup Ids(call.cur)
BadFile == file \in {"missing", "unreadable", "not_json", "number", "list"}

\* C15: no failure to read or write the document makes a cache operation
\* fail; built on a file that is missing, unreadable, not JSON or JSON that
\* is not a mapping, the cache starts empty and a later call behaves as on
\* an empty cache; when a write fails the call still returns its result
\* and the in-memory cache keeps the update.
C15_StoreFailureNeverFailsOperation ==
    /\ [](raised = "none")
    /\ []((lastCall.op = "load" /\ BadFile) =>
                (cache_type = "dict" /\ cache = EmptyCache))
    /\ [][lastCall'.op = "get" => ReturnsAndStores(cache, cache', lastCall')]_vars

\* What holds instead: all of it, as long as the file did not hold JSON
\* that is a list when the cache was built.
StoreFailureNeverFailsDict ==
    /\ [](cache_type = "dict" => raised = "none")
    /\ []((lastCall.op = "load" /\ BadFile /\ file # "list") =>
                (cache_type = "dict" /\ cache = EmptyCache))
    /\ [][(lastCall'.op = "get" /\ cache_type = "dict") =>
                ReturnsAndStores(cache, cache', lastCall')]_vars

----------------------------------------------------------------------------
(* scrapers/http_client.py: one call of HTTPClient.fetch.  Each action is   *)
(* one iteration of the retry loop, with the sleep that ends it; the raise *)
(* after the loop belongs to the iteration that ends the loop.             *)

CacheIdle == InitCache

\* The rest of a failed, retryable iteration: wait when another attempt
\* follows, then go on with the loop or raise after it.
FailedAttempt(error) ==
    /\ last_error' = error
    /\ events' = IF ShouldWait(attempt)
                 THEN events \o <<AttemptEvent(error), WaitEvent(WaitTime(attempt))>>
                 ELSE Append(events, AttemptEvent(error))
    /\ attempt' = attempt + 1
    /\ IF attempt + 1 < MAX_RETRIES
       THEN /\ f_pc' = "loop"
            /\ UNCHANGED result
       ELSE /\ f_pc' = "raised"
            /\ result' = FetchError(NoStatus, error)
    /\ UNCHANGED notFetch

\* the charsets a response can advertise for which bytes.decode finds a codec
Decoders == {"absent", "valid"}

\* urlopen answers and the body is decoded, by the advertised charset or by
\* utf-8 when none is advertised: return content
AttemptSucceeds(charset) ==
    /\ f_pc = "loop"
    /\ events' = Append(events, AttemptEvent(NoError))
    /\ f_pc' = "returned"
    /\ result' = Content
    /\ advertised' = charset
    /\ UNCHANGED <<attempt, last_error, notFetch>>

\* urlopen answers with a charset that names no encoding:
\* raw_content.decode(charset) raises LookupError, caught by except Exception
AttemptBadCharset ==
    /\ f_pc = "loop"
    /\ advertised' = "invalid"
    /\ FailedAttempt(LookupError)

\* urlopen answers and the body is not text in the charset used:
\* raw_content.decode raises UnicodeDecodeError, caught by except Exception
AttemptUndecodable(charset) ==
    /\ f_pc = "loop"
    /\ advertised' = charset
    /\ FailedAttempt(UnicodeDecodeError)

\* except HTTPError: a client error raises at once, any other status is retried
AttemptHTTPError(code) ==
    /\ f_pc = "loop"
    /\ advertised' = "none"
    /\ IF IsClientError(code)
       THEN /\ last_error' = HTTPError(code)
            /\ events' = Append(events, AttemptEvent(HTTPError(code)))
            /\ f_pc' = "raised"
            /\ result' = FetchError(code, HTTPError(code))
            /\ UNCHANGED <<attempt, notFetch>>
       ELSE FailedAttempt(HTTPError(code))

\* except URLError
AttemptURLError ==
    /\ f_pc = "loop"
    /\ advertised' = "none"
    /\ FailedAttempt(URLError)

\* except TimeoutError: last_error = TimeoutError("Request timed out")
AttemptTimeout ==
    /\ f_pc = "loop"
    /\ advertised' = "none"
    /\ FailedAttempt(TimeoutError)

\* except Exception
AttemptUnexpected ==
    /\ f_pc = "loop"
    /\ advertised' = "none"
    /\ FailedAttempt(Unexpected)

InitFetch ==
    /\ CacheIdle /\ EpisodesIdle /\ TripIdle /\ ParserIdle /\ ExtractIdle /\ SearchIdle /\ PruneIdle /\ ThreadsIdle /\ SharedIdle
    /\ advertised = "none"
    /\ f_pc = "loop"
    /\ attempt = 0
    /\ last_error = NoError
    /\ events = <<>>
    /\ result = NoResult

NextFetch ==
    \/ \E cs \in Decoders : AttemptSucceeds(cs)
    \/ AttemptBadCharset
    \/ \E cs \in Decoders : AttemptUndecodable(cs)
    \/ \E code \in HttpCodes : AttemptHTTPError(code)
    \/ AttemptURLError
    \/ AttemptTimeout
    \/ AttemptUnexpected

SpecFetch == InitFetch /\ [][NextFetch]_vars

Attempts == SelectSeq(events, LAMBDA e : e.kind = "attempt")
Waits == SelectSeq(events, LAMBDA e : e.kind = "wait")

\* attempt, wait, attempt, wait, ...: the fetch starts with an attempt and
\* no two attempts or two waits follow each other
Alternating ==
    \A i \in 1..Len(events) :
        events[i].kind = (IF i % 2 = 1 THEN "attempt" ELSE "wait")

Retryable(error) ==
    \/ error.type \in {"URLError", "TimeoutError"}
    \/ error.type = "HTTPError" /\ 500 <= error.code /\ error.code < 600

\* C5: a fetch that returns content at attempt k (k <= MAX_RETRIES) has
\* waited exactly k-1 times, once after each failed attempt and never before
\* the first attempt, the i-th wait lasting RETRY_DELAY * 2^(i-1).
C5_BackoffBeforeSuccess ==
    f_pc = "returned" =>
        /\ Len(Attempts) <= MAX_RETRIES
        /\ Len(Waits) = Len(Attempts) - 1
        /\ Alternating
        /\ \A i \in 1..Len(Waits) : Waits[i].delay = RETRY_DELAY * (2 ^ (i - 1))
        /\ Len(Waits) = 2 => Waits[2].delay = 2 * Waits[1].delay

\* two retryable failures, then success
C5_Witness ==
    /\ f_pc = "returned"
    /\ Len(Attempts) = 3
    /\ Retryable(Attempts[1].outcome)
    /\ Retryable(Attempts[2].outcome)

\* C6: an attempt that gets an HTTP status in [400,500) is the last thing
\* the fetch does: it has raised a FetchError with that status code, and no
\* wait or attempt follows (so a 4xx on the first attempt means no wait).
C6_ClientErrorIsTerminal ==
    \A i \in 1..Len(events) :
        (/\ events[i].kind = "attempt"
         /\ events[i].outcome.type = "HTTPError"
         /\ 400 <= events[i].outcome.code
         /\ events[i].outcome.code < 500) =>
            /\ i = Len(events)
            /\ f_pc = "raised"
            /\ result.kind = "FetchError"
            /\ result.status_code = events[i].outcome.code

\* a 4xx status on a later attempt, after a retryable failure and a wait
C6_Witness ==
    /\ f_pc = "raised"
    /\ Len(events) = 3
    /\ events[3].outcome.type = "HTTPError"
    /\ events[3].outcome.code = 400

AllRetryableFailures ==
    \A i \in 1..Len(Attempts) : Retryable(Attempts[i].outcome)

\* C7: while every attempt fails with a retryable error the fetch goes on
\* up to MAX_RETRIES attempts; after the MAX_RETRIES-th it has waited
\* MAX_RETRIES-1 times, none after the last attempt, and raises a FetchError
\* whose original_error is the failure of the last attempt.
C7_ExhaustedAfterMaxRetries ==
    (AllRetryableFailures /\ events # <<>>) =>
        \/ /\ f_pc = "loop"
           /\ Len(Attempts) < MAX_RETRIES
        \/ /\ f_pc = "raised"
           /\ Len(Attempts) = MAX_RETRIES
           /\ Len(Waits) = MAX_RETRIES - 1
           /\ events[Len(events)].kind = "attempt"
           /\ result.kind = "FetchError"
           /\ result.status_code = NoStatus
           /\ result.original_error = Attempts[MAX_RETRIES].outcome

\* a server error, a connection failure and a timeout, then the raise
C7_Witness ==
    /\ f_pc = "raised"
    /\ AllRetryableFailures
    /\ Len(Attempts) = MAX_RETRIES
    /\ Attempts[MAX_RETRIES].outcome = TimeoutError
    /\ Attempts[1].outcome.type = "HTTPError"

LastAttempt == Attempts[Len(Attempts)].outcome

\* C17: when an attempt receives a response whose charset is absent or
\* names no encoding, and the body is UTF-8 text, the fetch decodes it as
\* UTF-8 and returns the content: that attempt is not a failed one and no
\* retry follows it.
C17_CharsetFallsBackToUtf8 ==
    (advertised \in {"absent", "invalid"}
            /\ LastAttempt # UnicodeDecodeError) =>
        /\ f_pc = "returned"
        /\ result = Content
        /\ LastAttempt = NoError
        /\ last_error # LookupError

\* What holds instead: an absent charset falls back to UTF-8; a charset
\* that names no encoding makes the attempt fail with LookupError, which is
\* waited on and retried like a connection failure, and a fetch that meets
\* it MAX_RETRIES times raises FetchError.
InvalidCharsetIsRetried ==
    /\ (advertised = "absent" /\ LastAttempt # UnicodeDecodeError) =>
            (f_pc = "returned" /\ result = Content)
    /\ advertised = "invalid" =>
            /\ LastAttempt = LookupError
            /\ last_error = LookupError
            /\ IF Len(Attempts) < MAX_RETRIES
               THEN f_pc = "loop" /\ events[Len(events)].kind = "wait"
               ELSE f_pc = "raised" /\ result = FetchError(NoStatus, LookupError)

----------------------------------------------------------------------------
(* scrapers/imdb_scraper.py: get_new_episodes(imdb_id, last_episode), which *)
(* parses the code and runs get_latest_episodes.  Each scan action is one  *)
(* iteration of the season loop; what the remote site answers is the input.*)
(* A page is given by the valid candidates the parser emits for it.        *)

LastCodes == {
    <<"S", "0", "0", "E", "0", "0">>,
    <<"S", "0", "1", "E", "0", "1">>,
    <<"S", "1", "E", "1">>,
    <<"s", "0", "2", "e", "0", "0">>,
    <<"S", "0", "2", "E", "0", "1">>,
    <<"S", "0", "1", "E", "0", "1", "x">>,
    <<>>,
    <<"1", "x", "0", "1">>,
    <<"E", "0", "1", "S", "0", "1">>,
    <<"S", "1", "2", "3", "E", "0", "1">> }

Candidates == [season : 0..2, episode : 0..2]
PairedCandidates == {c \in Candidates : c.season = 0 /\ c.episode >= 1}
Pages == {<<>>} \cup {<<c>> : c \in Candidates}
            \cup {<<c, d>> : c \in PairedCandidates, d \in PairedCandidates}

\* one iteration whose fetch and parse succeed
ScanSeason(season_episodes) ==
    /\ e_pc = "scan"
    /\ empty_seasons < max_empty_seasons
    /\ season <= MaxSeason
    /\ all_episodes' = all_episodes \o ToEpisodes(season_episodes, season)
    /\ empty_seasons' = EmptySeasonsAfter(season_episodes, empty_seasons)
    /\ season' = season + 1
    /\ outcomes' = Append(outcomes, Parsed(season_episodes))
    /\ UNCHANGED <<e_pc, latest, new_episodes, last_episode, tripVars, notEpisodes>>

\* except FetchError: return [] when nothing was found at season 1, else
\* break, sort and return
ScanFetchError ==
    /\ e_pc = "scan"
    /\ empty_seasons < max_empty_seasons
    /\ season <= MaxSeason
    /\ latest' = OnFetchError(all_episodes, season)
    /\ e_pc' = "latest"
    /\ outcomes' = Append(outcomes, FetchFailed)
    /\ UNCHANGED <<season, empty_seasons, all_episodes, new_episodes,
                   last_episode, tripVars, notEpisodes>>

\* except Exception
ScanUnexpectedError ==
    /\ e_pc = "scan"
    /\ empty_seasons < max_empty_seasons
    /\ season <= MaxSeason
    /\ empty_seasons' = empty_seasons + 1
    /\ season' = season + 1
    /\ outcomes' = Append(outcomes, ParseFailed)
    /\ UNCHANGED <<e_pc, all_episodes, latest, new_episodes,
                   last_episode, tripVars, notEpisodes>>

\* the loop condition fails: sort and return
ScanEnds ==
    /\ e_pc = "scan"
    /\ empty_seasons >= max_empty_seasons
    /\ latest' = SortEpisodes(all_episodes)
    /\ e_pc' = "latest"
    /\ UNCHANGED <<season, empty_seasons, all_episodes, outcomes, new_episodes,
                   last_episode, tripVars, notEpisodes>>

\* get_new_episodes returns: the whole list or the filtered one
GetNewEpisodesReturns ==
    /\ e_pc = "latest"
    /\ new_episodes' = NewEpisodes(last_episode, latest)
    /\ e_pc' = "done"
    /\ UNCHANGED <<season, empty_seasons, all_episodes, outcomes, latest,
                   last_episode, tripVars, notEpisodes>>

InitEpisodes ==
    /\ CacheIdle /\ FetchIdle /\ TripIdle /\ ParserIdle /\ ExtractIdle /\ SearchIdle /\ PruneIdle /\ ThreadsIdle /\ SharedIdle
    /\ last_episode \in LastCodes
    /\ e_pc = "scan"
    /\ season = 1
    /\ empty_seasons = 0
    /\ all_episodes = <<>>
    /\ outcomes = <<>>
    /\ latest = <<>>
    /\ new_episodes = <<>>

NextEpisodes ==
    \/ \E page \in Pages : ScanSeason(page)
    \/ ScanFetchError
    \/ ScanUnexpectedError
    \/ ScanEnds
    \/ GetNewEpisodesReturns

SpecEpisodes == InitEpisodes /\ [][NextEpisodes]_vars

\* Reading a code as S<digits>E<digits>, independently of the parser.
PosE(c) == CHOOSE i \in 1..Len(c) :
                c[i] \in {"E", "e"} /\ \A j \in 1..(i - 1) : c[j] \notin {"E", "e"}
HasE(c) == \E i \in 1..Len(c) : c[i] \in {"E", "e"}
AllDigits(c) == c # <<>> /\ \A i \in 1..Len(c) : IsDigit(c[i])
SeasonDigits(c) == SubSeq(c, 2, PosE(c) - 1)
EpisodeDigits(c) == SubSeq(c, PosE(c) + 1, Len(c))
IsCodeForm(c) ==
    /\ Len(c) >= 4 /\ c[1] \in {"S", "s"} /\ HasE(c)
    /\ AllDigits(SeasonDigits(c)) /\ AllDigits(EpisodeDigits(c))
IsTwoDigitForm(c) ==
    IsCodeForm(c) /\ Len(SeasonDigits(c)) <= 2 /\ Len(EpisodeDigits(c)) <= 2
HasCodePrefix(c) == \E m \in 1..Len(c) : IsCodeForm(SubSeq(c, 1, m))
Later(ep, ss, ee) == ep.season > ss \/ (ep.season = ss /\ ep.episode > ee)

\* C8: for a code S<ss>E<ee> get_new_episodes returns, in order, exactly the
\* episodes of the get_latest_episodes list whose (season, episode) is
\* strictly greater than (ss, ee); for S00E00 that is the whole list.
C8_ReturnsStrictlyLaterEpisodes ==
    (e_pc = "done" /\ IsTwoDigitForm(last_episode)) =>
        LET ss == IntOf(SeasonDigits(last_episode))
            ee == IntOf(EpisodeDigits(last_episode))
        IN  /\ new_episodes = SelectSeq(latest, LAMBDA ep : Later(ep, ss, ee))
            /\ (ss = 0 /\ ee = 0) => new_episodes = latest

\* the list holds the last-known episode, earlier ones and later ones
C8_Witness ==
    /\ e_pc = "done"
    /\ IsTwoDigitForm(last_episode)
    /\ \E i \in 1..Len(latest) :
            /\ latest[i].season = IntOf(SeasonDigits(last_episode))
            /\ latest[i].episode = IntOf(EpisodeDigits(last_episode))
            /\ i > 1
            /\ i < Len(latest)
            /\ EpisodeLt(latest[i], latest[Len(latest)])

\* C9: for a code that cannot be parsed as S<season>E<episode>
\* get_new_episodes returns the whole get_latest_episodes list.
C9_UnparseableCodeFailsOpen ==
    (/\ e_pc = "done"
     /\ \/ ~HasCodePrefix(last_episode)
        \/ ParseEpisodeCode(last_episode) = NoParse) =>
        new_episodes = latest

\* a code without the S..E.. shape, and a list of several episodes
C9_Witness ==
    /\ e_pc = "done"
    /\ last_episode # <<>>
    /\ ~HasCodePrefix(last_episode)
    /\ Len(latest) >= 2

\* C11: the list get_latest_episodes returns is in ascending
\* (season, episode) order: no episode is followed by one with a smaller pair.
C11_LatestIsAscending ==
    (e_pc \in {"latest", "done"}) =>
        \A i \in 1..Len(latest) : \A j \in 1..Len(latest) :
            i < j => ~Later(latest[i], latest[j].season, latest[j].episode)

\* the episodes were collected out of order, so the sort moved some
C11_Witness ==
    /\ e_pc = "latest"
    /\ Len(latest) >= 3
    /\ \E i \in 1..(Len(all_episodes) - 1) :
            Later(all_episodes[i], all_episodes[i + 1].season,
                  all_episodes[i + 1].episode)

\* C12: no two episodes of the list get_latest_episodes returns have the
\* same (season, episode) pair, whatever the scanned pages hold.
C12_NoTwoEpisodesSamePair ==
    (e_pc \in {"latest", "done"}) =>
        \A i \in 1..Len(latest) : \A j \in 1..Len(latest) :
            i # j => <<latest[i].season, latest[i].episode>>
                        # <<latest[j].season, latest[j].episode>>

\* reading the history of the scan
LastOutcome == outcomes[Len(outcomes)]
FetchJustFailed == outcomes # <<>> /\ LastOutcome.kind = "FetchError"
Times(eps, ep) == Cardinality({i \in 1..Len(eps) : eps[i] = ep})
SameEpisodes(a, b) ==
    /\ Len(a) = Len(b)
    /\ \A i \in 1..Len(a) : Times(a, a[i]) = Times(b, a[i])
RECURSIVE CandidatesSeen(_)
CandidatesSeen(n) ==
    IF n = 0 THEN 0 ELSE CandidatesSeen(n - 1) + Len(outcomes[n].candidates)

C18_ScanIsBounded == (e_pc = "scan") => season <= MaxSeason

\* What holds instead: while every season asked for has answered with a
\* page holding an episode, the scan has not ended and is one season further.
OnlyPagesWithEpisodes ==
    \A i \in 1..Len(outcomes) :
        outcomes[i].kind = "page" /\ outcomes[i].candidates # <<>>
EpisodesOnEveryPageKeepScanning ==
    OnlyPagesWithEpisodes =>
        /\ e_pc = "scan"
        /\ empty_seasons = 0
        /\ season = Len(outcomes) + 1

\* season n yielded no episode: its page held no candidate, or parsing it failed
YieldedNone(n) == outcomes[n].kind # "FetchError" /\ outcomes[n].candidates = <<>>
NoFetchFailure == \A n \in 1..Len(outcomes) : outcomes[n].kind # "FetchError"
TwoEmptyInARow(n) == n >= 2 /\ YieldedNone(n - 1) /\ YieldedNone(n)
\* the episode built from candidate c of the page of season n is in the list
InLatest(n, c) ==
    \E i \in 1..Len(latest) :
        /\ latest[i].episode = c.episode
        /\ latest[i].season = IF c.season = 0 THEN n ELSE c.season

C20_EpisodeCarriesScannedSeason ==
    [][\A i \in (Len(all_episodes) + 1)..Len(all_episodes') :
            all_episodes'[i].season = season]_vars

\* What holds instead: the Episode carries the season the page states, and
\* the scanned season only when the page states season 0.
EpisodeCarriesStatedSeason ==
    [][\A i \in (Len(all_episodes) + 1)..Len(all_episodes') :
            LET stated == outcomes'[season].candidates[i - Len(all_episodes)].season
            IN  all_episodes'[i].season = IF stated = 0 THEN season ELSE stated]_vars

----------------------------------------------------------------------------
(* IMDBEpisodeParser: parser.feed(html) hands the page over token by token *)

Fed(type, what) ==
    /\ token' = [type |-> type, what |-> what]
    /\ fed' = fed + 1
    /\ UNCHANGED <<p_pc, current_season, notParser>>

\* handle_starttag
HandleStartTag(tag) ==
    /\ p_pc = "feed"
    /\ fed < MaxTokens
    /\ IF tag = "container"
       THEN /\ in_episode_container' = TRUE
            /\ depth_in_container' = 1
            /\ current_episode' = NewCandidate(current_season)
            /\ UNCHANGED <<in_title_element, in_date_element>>
       ELSE /\ depth_in_container' = IF in_episode_container
                                     THEN depth_in_container + 1
                                     ELSE depth_in_container
            /\ in_title_element' = IF in_episode_container /\ tag = "title"
                                   THEN TRUE ELSE in_title_element
            /\ in_date_element' = IF in_episode_container /\ tag = "date"
                                  THEN TRUE ELSE in_date_element
            /\ UNCHANGED <<in_episode_container, current_episode>>
    /\ UNCHANGED episodes
    /\ open_elements' = IF tag = "void" THEN open_elements
                        ELSE Append(open_elements, tag)
    /\ Fed("start", tag)

\* handle_endtag
HandleEndTag(tag) ==
    /\ p_pc = "feed"
    /\ fed < MaxTokens
    /\ in_title_element' = IF tag = "h3" THEN FALSE ELSE in_title_element
    /\ in_date_element' = IF tag = "span" THEN FALSE ELSE in_date_element
    /\ IF in_episode_container
       THEN /\ depth_in_container' = depth_in_container - 1
            /\ IF depth_in_container' <= 0
               THEN /\ in_episode_container' = FALSE
                    /\ episodes' = IF current_episode # NoCandidate
                                      /\ IsValid(current_episode)
                                   THEN Append(episodes, current_episode)
                                   ELSE episodes
                    /\ current_episode' = NoCandidate
               ELSE UNCHANGED <<in_episode_container, episodes, current_episode>>
       ELSE UNCHANGED <<depth_in_container, in_episode_container, episodes,
                        current_episode>>
    /\ open_elements' = IF open_elements = <<>> THEN <<>>
                        ELSE SubSeq(open_elements, 1, Len(open_elements) - 1)
    /\ Fed("end", tag)

\* handle_data, strategy 1: the episode code of the text
WithEpisodeCode(candidate, data) ==
    IF /\ in_title_element \/ ContainsS(data)
       /\ ExtractEpisodeCode(data) # NoParse
    THEN [candidate EXCEPT !.season = ExtractEpisodeCode(data)[1],
                           !.episode = ExtractEpisodeCode(data)[2]]
    ELSE candidate

\* handle_data, strategy 2: the air date
WithAirDate(candidate, data) ==
    IF in_date_element \/ LooksLikeDate(data)
    THEN [candidate EXCEPT !.air_date = data]
    ELSE candidate

\* handle_data
HandleData(data) ==
    /\ p_pc = "feed"
    /\ fed < MaxTokens
    /\ IF /\ in_episode_container
          /\ current_episode # NoCandidate
          /\ Strip(data) # ""
       THEN current_episode' =
                WithAirDate(WithEpisodeCode(current_episode, Strip(data)),
                            Strip(data))
       ELSE UNCHANGED current_episode
    /\ UNCHANGED <<episodes, in_episode_container, in_title_element,
                   in_date_element, depth_in_container, open_elements>>
    /\ Fed("data", data)

\* the page ends: parser.feed returns and parser.episodes is read
EndOfDocument ==
    /\ p_pc = "feed"
    /\ p_pc' = "done"
    /\ token' = [type |-> "eof", what |-> ""]
    /\ UNCHANGED <<current_season, episodes, current_episode,
                   in_episode_container, in_title_element, in_date_element,
                   depth_in_container, fed, open_elements, notParser>>

InitParser ==
    /\ CacheIdle /\ FetchIdle /\ EpisodesIdle /\ TripIdle /\ ExtractIdle /\ SearchIdle /\ PruneIdle /\ ThreadsIdle /\ SharedIdle
    /\ p_pc = "feed"
    /\ current_season \in 1..2
    /\ episodes = <<>>
    /\ current_episode = NoCandidate
    /\ in_episode_container = FALSE
    /\ in_title_element = FALSE
    /\ in_date_element = FALSE
    /\ depth_in_container = 0
    /\ token = NoToken
    /\ fed = 0
    /\ open_elements = <<>>

NextParser ==
    \/ \E tag \in StartTags : HandleStartTag(tag)
    \/ \E tag \in EndTags : HandleEndTag(tag)
    \/ \E data \in Texts : HandleData(data)
    \/ EndOfDocument

SpecParser == InitParser /\ [][NextParser]_vars

\* the same parser fed pages made of title and date elements and of the
\* text nodes TextNodes
NextText ==
    \/ \E tag \in TextStartTags : HandleStartTag(tag)
    \/ \E tag \in TextEndTags : HandleEndTag(tag)
    \/ \E data \in TextNodes : HandleData(data)
    \/ EndOfDocument

SpecText == InitParser /\ [][NextText]_vars

\* C13: every candidate the parser emits has both season and episode set;
\* a candidate is emitted only by the end tag that closes its container, so
\* a container still open at the end of the document emits none, even with
\* a code seen; a container closed with no code matched emits nothing and
\* the parse goes on.
C13_OnlyValidCandidatesOnClose ==
    /\ [](\A i \in 1..Len(episodes) :
            episodes[i].season # None /\ episodes[i].episode # None)
    /\ [][/\ episodes' # episodes =>
                /\ token'.type = "end"
                /\ in_episode_container /\ ~in_episode_container'
                /\ current_episode.episode # None
                /\ episodes' = Append(episodes, current_episode)
          /\ (in_episode_container /\ ~in_episode_container'
                    /\ current_episode.episode = None) =>
                /\ episodes' = episodes
                /\ p_pc' = "feed"
          /\ token'.type = "eof" => episodes' = episodes]_vars

\* the document ended inside a container in which a code was seen, after
\* one container was closed with a code and emitted
C13_Witness ==
    /\ p_pc = "done"
    /\ in_episode_container
    /\ current_episode.episode # None
    /\ Len(episodes) = 1

\* position in open_elements of the outermost open element whose start tag
\* matched a container indicator: the container's own open tag; 0 if none
ContainerAt(elements) ==
    IF \E i \in 1..Len(elements) : elements[i] = "container"
    THEN CHOOSE i \in 1..Len(elements) :
            /\ elements[i] = "container"
            /\ \A j \in 1..(i - 1) : elements[j] # "container"
    ELSE 0

\* the token just handled is the close tag of the container's own open tag
ClosesContainer ==
    /\ token'.type = "end"
    /\ ContainerAt(open_elements) # 0
    /\ ContainerAt(open_elements) = Len(open_elements)

\* the parser has left the container and dropped or emitted its candidate
LeavesContainer == in_episode_container /\ ~in_episode_container'

\* a candidate in progress changes only by a text node that sets its code
CandidateKept ==
    \/ current_episode' = current_episode
    \/ token'.type = "data" /\ current_episode'.episode # None

\* C21: for any tag stream (nested tags of any name, nested tags that match
\* a container indicator, void tags) the parser leaves the container exactly
\* when the close tag matching the container's own open tag is processed,
\* and keeps the candidate in progress until then.
C21_LeavesContainerAtItsCloseTag ==
    [][/\ LeavesContainer <=> ClosesContainer
       /\ (ContainerAt(open_elements) # 0 /\ ~ClosesContainer) => CandidateKept]_vars

\* the parser's flags agree with the page: it is inside a container exactly
\* while one is open, and its depth counts the elements open from the
\* container's own tag on
InStep ==
    /\ in_episode_container <=> ContainerAt(open_elements) # 0
    /\ in_episode_container =>
            depth_in_container = Len(open_elements) - ContainerAt(open_elements) + 1

\* the token just handled is a void tag, or a tag matching a container
\* indicator met inside a container
VoidOrNestedContainer ==
    /\ token'.type = "start"
    /\ \/ token'.what = "void" /\ ContainerAt(open_elements) # 0
       \/ token'.what = "container" /\ ContainerAt(open_elements) # 0

\* What holds instead: as long as no void tag and no tag matching a
\* container indicator is met inside a container, the parser stays in step
\* with the page, leaves the container exactly at its close tag and keeps
\* the candidate until then.
OrdinaryTagsLeaveAtCloseTag ==
    [][(InStep /\ ~VoidOrNestedContainer) =>
            /\ InStep'
            /\ LeavesContainer <=> ClosesContainer
            /\ (ContainerAt(open_elements) # 0 /\ ~ClosesContainer) => CandidateKept]_vars

\* the token just handled is a non-empty text node met inside a container
TextInContainer ==
    /\ token'.type = "data"
    /\ in_episode_container
    /\ current_episode # NoCandidate
    /\ Strip(token'.what) # ""

\* the patterns in the order S<season>E<episode>, <season>x<episode>,
\* Season <n> Episode <m>: what the first that matches finds
FirstMatch(data) ==
    LET found == <<Pattern1(data), Pattern2(data), Pattern3(data)>>
    IN  IF \E i \in 1..3 : found[i] # NoParse
        THEN found[CHOOSE i \in 1..3 :
                    /\ found[i] # NoParse
                    /\ \A j \in 1..(i - 1) : found[j] = NoParse]
        ELSE NoParse

\* the text node just handled has set the candidate's season and episode
\* to what the first matching pattern finds in it
SetsCodeByFirstMatch ==
    FirstMatch(Strip(token'.what)) # NoParse =>
        /\ current_episode'.season = FirstMatch(Strip(token'.what))[1]
        /\ current_episode'.episode = FirstMatch(Strip(token'.what))[2]

\* C22: every non-empty text node met inside a container, whatever element
\* encloses it and whatever letters it holds, is tested against the
\* patterns in their order, and the first that matches sets the candidate's
\* season and episode.
C22_EveryTextIsTested ==
    [][TextInContainer => SetsCodeByFirstMatch]_vars

\* What holds instead: a text node is tested only inside a title element or
\* when it holds the letter s; then the first matching pattern sets the
\* code, and any other text node leaves season and episode alone.
TitleOrSTextIsTested ==
    [][TextInContainer =>
            IF in_title_element \/ ContainsS(Strip(token'.what))
            THEN SetsCodeByFirstMatch
            ELSE /\ current_episode'.season = current_episode.season
                 /\ current_episode'.episode = current_episode.episode]_vars

\* C23: within one container the candidate's air date is set by the first
\* text node that qualifies as a date and is never overwritten by a later
\* text node of the same container.
C23_AirDateSetOnce ==
    [][TextInContainer =>
            IF current_episode.air_date = NoDate
            THEN LooksLikeDate(Strip(token'.what)) =>
                    current_episode'.air_date = Strip(token'.what)
            ELSE current_episode'.air_date = current_episode.air_date]_vars

\* What holds instead: the air date is the last text node of the container
\* that looks like a date or stands inside a date element.
AirDateIsLastDateText ==
    [][TextInContainer =>
            current_episode'.air_date =
                IF in_date_element \/ LooksLikeDate(Strip(token'.what))
                THEN Strip(token'.what)
                ELSE current_episode.air_date]_vars

----------------------------------------------------------------------------
(* Round trip between _parse_episode_code and Episode.episode_code *)

Letters == {<<"S", "E">>, <<"s", "e">>}
DigitChoice == {"0", "1", "2"}
DigitStrings == UNION {[1..n -> DigitChoice] : n \in 1..MaxDigits}
Suffixes == {<<>>, <<"x">>}
CodeInputs ==
    {<<l[1]>> \o sd \o <<l[2]>> \o ed \o x :
        l \in Letters, sd \in DigitStrings, ed \in DigitStrings, x \in Suffixes}
    \cup {<<>>, <<"S">>, <<"S", "1">>, <<"S", "E", "1">>, <<"1", "x", "5">>}
Numbers == {0, 1, 5, 12, 99, 100, 123}
PairInputs == Numbers \X Numbers

\* parse a code, then format what was parsed
ParseThenFormat ==
    /\ c_pc = "code"
    /\ parsed' = ParseEpisodeCode(last_episode)
    /\ formatted' = IF parsed'[1] = None THEN <<>>
                    ELSE FormatEpisodeCode(parsed'[1], parsed'[2])
    /\ c_pc' = "done"
    /\ UNCHANGED <<pair, last_episode, scanVars, notEpisodes>>

\* format a pair, then parse the code
FormatThenParse ==
    /\ c_pc = "pair"
    /\ formatted' = FormatEpisodeCode(pair[1], pair[2])
    /\ parsed' = ParseEpisodeCode(formatted')
    /\ c_pc' = "done"
    /\ UNCHANGED <<pair, last_episode, scanVars, notEpisodes>>

InitCodes ==
    /\ CacheIdle /\ FetchIdle /\ ParserIdle /\ ExtractIdle /\ SearchIdle /\ PruneIdle /\ ThreadsIdle /\ SharedIdle
    /\ e_pc = "idle" /\ season = 1 /\ empty_seasons = 0
    /\ all_episodes = <<>> /\ outcomes = <<>> /\ latest = <<>> /\ new_episodes = <<>>
    /\ parsed = NoParse
    /\ formatted = <<>>
    /\ \/ c_pc = "code" /\ last_episode \in CodeInputs /\ pair = <<0, 0>>
       \/ c_pc = "pair" /\ last_episode = <<>> /\ pair \in PairInputs

NextCodes ==
    \/ ParseThenFormat
    \/ FormatThenParse

SpecCodes == InitCodes /\ [][NextCodes]_vars

FromCode == c_pc = "done" /\ last_episode # <<>>
FromPair == c_pc = "done" /\ last_episode = <<>> /\ formatted # <<>>

\* C10: every code S<d+>E<d+> parses, and formatting the result gives the
\* code with both numbers zero-padded to two digits (an already padded code
\* comes back unchanged); a formatted (season, episode) pair parses back to
\* the same pair.
C10_CodeRoundTrip ==
    /\ (FromCode /\ IsCodeForm(last_episode) /\ last_episode[1] = "S"
                 /\ last_episode[PosE(last_episode)] = "E") =>
          /\ parsed # NoParse
          /\ formatted = FormatEpisodeCode(IntOf(SeasonDigits(last_episode)),
                                           IntOf(EpisodeDigits(last_episode)))
          /\ (Len(SeasonDigits(last_episode)) = 2 /\ Len(EpisodeDigits(last_episode)) = 2)
                => formatted = last_episode
    /\ FromPair => parsed = pair

\* Side result for C10: the round trip holds while both numbers have at most
\* two digits.
RoundTripUpToTwoDigits ==
    /\ (FromCode /\ IsTwoDigitForm(last_episode)) =>
          /\ parsed = <<IntOf(SeasonDigits(last_episode)),
                        IntOf(EpisodeDigits(last_episode))>>
          /\ formatted = FormatEpisodeCode(parsed[1], parsed[2])
    /\ (FromPair /\ pair[1] < 100 /\ pair[2] < 100) => parsed = pair

----------------------------------------------------------------------------
(* YouTubeJSONExtractor.extract_videos *)

VideoResult(video_id, title) == [video_id |-> video_id, title |-> title]
Titles == {"x", "y"}
UnknownTitle == "Unknown Title"

\* renderer.get('videoId') finds nothing
NoVideoId == "None"
\* what _parse_video_renderer returns for a renderer it cannot use
NoVideo == [video_id |-> NoVideoId, title |-> ""]

\* values under a videoRenderer key: an object with a videoId and a title,
\* an object with no videoId, a value that is no object
Renderers ==
    {[kind |-> "object", videoId |-> v, title |-> t] : v \in VideoIds, t \in Titles}
        \cup {[kind |-> "object", videoId |-> NoVideoId, title |-> "x"],
              [kind |-> "string", videoId |-> NoVideoId, title |-> ""]}
\* matches of the videoId pattern in the raw text, each with the title the
\* text around it gives
Matches ==
    {[video_id |-> v, title |-> t] : v \in VideoIds, t \in {UnknownTitle, "x"}}

\* what json.loads does with the text captured after the marker: "ok", or
\* the exception it raises
JSONDecodeError == "JSONDecodeError"
RecursionError == "RecursionError"
Blobs == {"ok", JSONDecodeError, RecursionError}

\* _parse_video_renderer; renderer.get on a value that is no object raises,
\* and except Exception returns None
ParseVideoRenderer(renderer) ==
    IF renderer.kind # "object" THEN NoVideo
    ELSE IF renderer.videoId = NoVideoId THEN NoVideo
    ELSE VideoResult(renderer.videoId, renderer.title)

\* for renderer in video_renderers: video = ...; if video: videos.append(video)
RECURSIVE ParseRenderers(_)
ParseRenderers(video_renderers) ==
    IF video_renderers = <<>> THEN <<>>
    ELSE LET video == ParseVideoRenderer(Head(video_renderers))
         IN  (IF video # NoVideo THEN <<video>> ELSE <<>>)
                \o ParseRenderers(Tail(video_renderers))

Caught_decodeErrorOnly(exception) == exception = JSONDecodeError

\* _extract_from_initial_data: except json.JSONDecodeError and except
\* Exception, both pass
Caught(exception) == exception \in {JSONDecodeError, RecursionError}

RegexLimit == 10

\* _extract_from_regex: the loop over the matches, with seen_ids and the
\* limit on the number of results
RECURSIVE RegexLoop(_, _, _)
RegexLoop(matches, seen_ids, videos) ==
    IF matches = <<>> THEN videos
    ELSE IF Head(matches).video_id \in seen_ids
         THEN RegexLoop(Tail(matches), seen_ids, videos)
    ELSE IF Len(videos) + 1 >= RegexLimit
         THEN Append(videos, Head(matches))
    ELSE RegexLoop(Tail(matches), seen_ids \cup {Head(matches).video_id},
                   Append(videos, Head(matches)))

ExtractFromRegexOf(page) == RegexLoop(page.matches, {}, <<>>)

\* json_videos = self._extract_from_initial_data(html)
ExtractFromInitialData ==
    /\ x_pc = "primary"
    /\ strategies' = Append(strategies, "initial_data")
    /\ IF html.marker = "absent"
       THEN json_videos' = <<>> /\ x_pc' = "decide"
       ELSE IF html.blob # "ok"
       THEN IF Caught(html.blob)
            THEN json_videos' = <<>> /\ x_pc' = "decide"
            ELSE json_videos' = <<>> /\ x_pc' = "raised"
       ELSE json_videos' = ParseRenderers(html.renderers) /\ x_pc' = "decide"
    /\ UNCHANGED <<html, extracted, notExtract>>

\* if json_videos: return json_videos
ReturnJSONVideos ==
    /\ x_pc = "decide"
    /\ json_videos # <<>>
    /\ extracted' = json_videos
    /\ x_pc' = "returned"
    /\ UNCHANGED <<strategies, html, json_videos, notExtract>>

\* regex_videos = self._extract_from_regex(html), returned if not empty,
\* else the empty list videos
ExtractFromRegex ==
    /\ x_pc = "decide"
    /\ json_videos = <<>>
    /\ strategies' = Append(strategies, "regex")
    /\ extracted' = ExtractFromRegexOf(html)
    /\ x_pc' = "returned"
    /\ UNCHANGED <<html, json_videos, notExtract>>

SeqsUpTo(S, n) == UNION {[1..k -> S] : k \in 0..n}

SearchPages ==
    {[marker |-> "absent", blob |-> "none", renderers |-> <<>>, matches |-> m] :
        m \in SeqsUpTo(Matches, MaxLen)}
    \cup {[marker |-> k, blob |-> b, renderers |-> <<>>, matches |-> m] :
            k \in {"var", "bare"}, b \in {JSONDecodeError, RecursionError},
            m \in SeqsUpTo(Matches, MaxLen)}
    \cup {[marker |-> k, blob |-> "ok", renderers |-> r, matches |-> m] :
            k \in {"var", "bare"}, r \in SeqsUpTo(Renderers, MaxLen),
            m \in SeqsUpTo(Matches, MaxLen)}

InitExtract ==
    /\ CacheIdle /\ FetchIdle /\ EpisodesIdle /\ TripIdle /\ ParserIdle /\ SearchIdle /\ PruneIdle /\ ThreadsIdle /\ SharedIdle
    /\ x_pc = "primary"
    /\ strategies = <<>>
    /\ html \in SearchPages
    /\ json_videos = <<>>
    /\ extracted = <<>>

NextExtract ==
    \/ ExtractFromInitialData
    \/ ReturnJSONVideos
    \/ ExtractFromRegex

SpecExtract == InitExtract /\ [][NextExtract]_vars

RanRegex == \E i \in 1..Len(strategies) : strategies[i] = "regex"
DistinctIds(videos) ==
    \A i, j \in 1..Len(videos) : videos[i].video_id = videos[j].video_id => i = j

\* C24: extract_videos never raises; it returns the records of the primary
\* path whenever that path yields at least one, and runs the regex fallback
\* exactly when the marker is absent, the captured text fails to parse, or
\* the primary path yields no record.
C24_NeverRaisesAndFallsBack ==
    /\ x_pc # "raised"
    /\ x_pc = "returned" =>
        /\ json_videos # <<>> => extracted = json_videos
        /\ (html.marker = "absent" \/ html.blob \in {JSONDecodeError, RecursionError})
                => json_videos = <<>>
        /\ RanRegex <=> json_videos = <<>>
        /\ RanRegex => extracted = ExtractFromRegexOf(html)

\* json.loads gave up on the captured text with an error that is no
\* JSONDecodeError, and the fallback's records were returned
C24_Witness ==
    /\ x_pc = "returned"
    /\ html.blob = RecursionError
    /\ RanRegex
    /\ Len(extracted) = 2

\* C25: the list one extract_videos call returns never holds two records
\* with the same video id, whichever path it comes from.
C25_ExtractedIdsDistinct ==
    x_pc = "returned" => DistinctIds(extracted)

\* What holds instead: the list of the fallback path has distinct ids.
FallbackIdsDistinct ==
    (x_pc = "returned" /\ RanRegex) => DistinctIds(extracted)

----------------------------------------------------------------------------
(* YouTubeScraper.search_episode_videos and search_series_trailers *)

\* the records a search page can give: titles "x" hold every word of the
\* series name, titles "y" at least half of them, UnknownTitle none
FoundVideos == {VideoResult(v, t) : v \in VideoIds, t \in Titles \cup {UnknownTitle}}
EpisodeTitles == {"None", "Unknown", "Pilot"}   \* the episode_title argument
MaxResults == {1, 2}                            \* the max_results argument

\* _build_search_queries: two queries, one more for a known title, one more
BuildSearchQueries(episode_title) ==
    IF episode_title # "None" /\ episode_title # "Unknown" THEN 4 ELSE 3

AddNew_keepAll(all, ids, page_videos) == all \o page_videos

\* for video in videos: if video.video_id not in seen_ids: add and append
RECURSIVE AddNew(_, _, _)
AddNew(all, ids, page_videos) ==
    IF page_videos = <<>> THEN all
    ELSE IF Head(page_videos).video_id \in ids
         THEN AddNew(all, ids, Tail(page_videos))
    ELSE AddNew(Append(all, Head(page_videos)),
                ids \cup {Head(page_videos).video_id}, Tail(page_videos))

IdsOf(list) == {list[i].video_id : i \in 1..Len(list)}

IsRelevant(video) == video.title = "x"
IsSomewhatRelevant(video) == video.title = "y"
\* _filter_relevant: relevant + somewhat_relevant
FilterRelevant(list) ==
    SelectSeq(list, IsRelevant) \o SelectSeq(list, IsSomewhatRelevant)

\* list[:n]
Top(list, n) == SubSeq(list, 1, IF Len(list) < n THEN Len(list) ELSE n)

\* the loop is over after the last query, or at the break of
\* search_episode_videos: if len(all_videos) >= max_results * 2
LoopOver(all) ==
    \/ query = queries
    \/ operation = "episode" /\ Len(all) >= max_results * 2

\* one turn of the loop in which _search_youtube returns a list
SearchYoutube(page_videos) ==
    /\ s_pc = "loop"
    /\ yt_videos' = page_videos
    /\ searched' = "ok"
    /\ yt_all_videos' = AddNew(yt_all_videos, yt_seen_ids, page_videos)
    /\ yt_seen_ids' = IdsOf(yt_all_videos')
    /\ IF LoopOver(yt_all_videos')
       THEN s_pc' = "after" /\ UNCHANGED query
       ELSE s_pc' = "loop" /\ query' = query + 1
    /\ UNCHANGED <<operation, max_results, queries, yt_found, notSearch>>

\* one turn of the loop in which _search_youtube raises: logged, next query
SearchFails(exception) ==
    /\ s_pc = "loop"
    /\ searched' = exception
    /\ IF query = queries
       THEN s_pc' = "after" /\ UNCHANGED query
       ELSE s_pc' = "loop" /\ query' = query + 1
    /\ UNCHANGED <<operation, max_results, queries, yt_all_videos, yt_seen_ids,
                   yt_videos, yt_found, notSearch>>

\* return relevant_videos[:max_results] / return all_videos[:max_results]
ReturnFound ==
    /\ s_pc = "after"
    /\ yt_found' = IF operation = "episode"
                   THEN Top(FilterRelevant(yt_all_videos), max_results)
                   ELSE Top(yt_all_videos, max_results)
    /\ s_pc' = "returned"
    /\ UNCHANGED <<operation, max_results, queries, query, yt_all_videos,
                   yt_seen_ids, yt_videos, searched, notSearch>>

InitSearch ==
    /\ CacheIdle /\ FetchIdle /\ EpisodesIdle /\ TripIdle /\ ParserIdle /\ ExtractIdle /\ PruneIdle /\ ThreadsIdle /\ SharedIdle
    /\ s_pc = "loop"
    /\ operation \in {"episode", "trailers"}
    /\ max_results \in MaxResults
    /\ queries \in IF operation = "episode"
                   THEN {BuildSearchQueries(t) : t \in EpisodeTitles}
                   ELSE {3}
    /\ query = 1
    /\ yt_all_videos = <<>>
    /\ yt_seen_ids = {}
    /\ yt_videos = <<>>
    /\ searched = "none"
    /\ yt_found = <<>>

NextSearch ==
    \/ \E page_videos \in SeqsUpTo(FoundVideos, MaxLen) : SearchYoutube(page_videos)
    \/ \E exception \in {"FetchError", "Exception"} : SearchFails(exception)
    \/ ReturnFound

SpecSearch == InitSearch /\ [][NextSearch]_vars

\* the record of the list with the given id that stands first in it
FirstWith(list, id) ==
    list[CHOOSE i \in 1..Len(list) :
            /\ list[i].video_id = id
            /\ \A j \in 1..(i - 1) : list[j].video_id # id]

\* C26: across the query variants of one search the accumulated result
\* holds each video id at most once, the record kept for an id is the one
\* of the first variant, and first position in it, that returned the id,
\* and the returned list has pairwise distinct ids.
C26_FirstOccurrenceWins ==
    /\ [](DistinctIds(yt_all_videos) /\ DistinctIds(yt_found))
    /\ [][(s_pc = "loop" /\ searched' = "ok") =>
            /\ IdsOf(yt_all_videos') = IdsOf(yt_all_videos) \cup IdsOf(yt_videos')
            /\ \A id \in IdsOf(yt_all_videos') :
                    FirstWith(yt_all_videos', id) =
                        IF id \in IdsOf(yt_all_videos)
                        THEN FirstWith(yt_all_videos, id)
                        ELSE FirstWith(yt_videos', id)]_vars
    /\ [][(s_pc = "loop" /\ searched' # "ok") =>
            yt_all_videos' = yt_all_videos]_vars

\* a later variant has returned, twice, an id that an earlier variant had
\* returned under another title, and the earlier record is the one kept
C26_Witness ==
    /\ query >= 2
    /\ searched = "ok"
    /\ Len(yt_videos) = 2
    /\ yt_videos[1].video_id = "a" /\ yt_videos[2].video_id = "a"
    /\ yt_videos[1].title = "y"
    /\ yt_all_videos = <<VideoResult("a", "x")>>

----------------------------------------------------------------------------
(* VideoCache.prune_old_entries and auto_prune_if_needed, on a cache loaded  *)
(* from a document whose entries may lack last_checked                       *)

PruneThresholds == {1, 2}           \* values of CACHE_PRUNE_THRESHOLD
NoDays == None                      \* days=None
DaysChoices == TTLChoices \cup {NoDays}

PrunableEntries ==
    {[video_ids |-> {"a"}, last_checked |-> t] : t \in {NoLastChecked, 0}}
PrunableCaches == UNION {[ks -> PrunableEntries] : ks \in SUBSET Keys}

\* ttl = days if days is not None else CACHE_TTL_DAYS
TtlOf(days) == IF days # NoDays THEN days ELSE CACHE_TTL_DAYS

\* count_stale_entries, and len(keys_to_remove) in prune_old_entries
CountStaleEntries(c, ttl, t) ==
    Cardinality({key \in DOMAIN c : IsEntryStale(c, key, ttl, t)})

\* prune_old_entries(days), with what it returns
PruneAndCount(days) ==
    /\ ttl_used' = TtlOf(days)
    /\ pruned' = CountStaleEntries(cache, TtlOf(days), now)
    /\ cache' = PruneEntries(cache, TtlOf(days), now)
    /\ disk' = IF pruned' # 0 THEN SaveCache(disk, cache', TRUE) ELSE disk
    /\ ResetGhost(cache')

\* VideoCache.prune_old_entries(days)
PruneOldEntriesCall(days) ==
    /\ PruneAndCount(days)
    /\ lastCall' = NoCall("prune")
    /\ UNCHANGED <<now, runGhost, loadVars, CACHE_TTL_DAYS, CACHE_AUTO_PRUNE,
                   CACHE_PRUNE_THRESHOLD, notPrune>>

\* VideoCache.auto_prune_if_needed
AutoPruneIfNeeded ==
    /\ lastCall' = NoCall("auto_prune")
    /\ IF /\ CACHE_AUTO_PRUNE
          /\ ~(Cardinality(DOMAIN cache) < CACHE_PRUNE_THRESHOLD)
          /\ CountStaleEntries(cache, TtlOf(NoDays), now) > 0
       THEN PruneAndCount(NoDays)
       ELSE /\ pruned' = 0
            /\ UNCHANGED <<cache, disk, ttl_used, apiGhost>>
    /\ UNCHANGED <<now, runGhost, loadVars, CACHE_TTL_DAYS, CACHE_AUTO_PRUNE,
                   CACHE_PRUNE_THRESHOLD, notPrune>>

InitPrune ==
    /\ FetchIdle /\ EpisodesIdle /\ TripIdle /\ ParserIdle /\ ExtractIdle /\ SearchIdle /\ ThreadsIdle /\ SharedIdle
    /\ disk \in PrunableCaches
    /\ cache = disk
    /\ file = "mapping"
    /\ cache_type = "dict"
    /\ raised = "none"
    /\ last_write = "none"
    /\ lastCall = NoCall("init")
    /\ now = 0
    /\ track = Idle
    /\ returnedNew = [k \in Keys |-> {}]
    /\ newTwice = FALSE
    /\ newInTwoCalls = FALSE
    /\ runNo = 1
    /\ seen = [k \in Keys |-> [v \in VideoIds |-> "never"]]
    /\ missed = FALSE
    /\ duplicated = FALSE
    /\ ioFailed = FALSE
    /\ CACHE_TTL_DAYS \in TTLChoices
    /\ CACHE_AUTO_PRUNE \in BOOLEAN
    /\ CACHE_PRUNE_THRESHOLD \in PruneThresholds
    /\ ttl_used = 0
    /\ pruned = 0

NextPrune ==
    \/ \E s \in Subjects, e \in EpisodeCodes : GetNewVideos(s, e, <<>>, FALSE)
    \/ \E d \in DaysChoices : PruneOldEntriesCall(d)
    \/ AutoPruneIfNeeded
    \/ Tick

SpecPrune == InitPrune /\ [][NextPrune]_vars

\* stale as the claim has it: older than the TTL, or without last_checked
StaleFor(entry, ttl, t) ==
    \/ entry.last_checked = NoLastChecked
    \/ t - entry.last_checked > ttl
StaleKeys(c, ttl, t) == {key \in DOMAIN c : StaleFor(c[key], ttl, t)}

\* C27: prune_old_entries with TTL t removes exactly the stale entries (older
\* than t, or without last_checked; an entry whose age equals t is not
\* stale), returns their number and leaves every other entry unchanged;
\* right after it no stale entry remains.
C27_PruneRemovesExactlyStale ==
    [][lastCall'.op = "prune" =>
            /\ DOMAIN cache' = DOMAIN cache \ StaleKeys(cache, ttl_used', now)
            /\ \A key \in DOMAIN cache' : cache'[key] = cache[key]
            /\ pruned' = Cardinality(StaleKeys(cache, ttl_used', now))
            /\ StaleKeys(cache', ttl_used', now') = {}]_vars

\* a prune has removed one entry and kept one whose age equals the TTL
C27_Witness ==
    /\ lastCall.op = "prune"
    /\ pruned = 1
    /\ ttl_used = 1
    /\ \E key \in DOMAIN cache : now - cache[key].last_checked = ttl_used

\* C28: auto_prune_if_needed removes entries only when the cache holds more
\* entries than the threshold and at least one is stale; when the count is
\* at or below the threshold, or no entry is stale, or auto-pruning is
\* disabled, it returns 0 and leaves the cache unchanged.
C28_AutoPruneOnlyAboveThreshold ==
    [][lastCall'.op = "auto_prune" =>
            LET above == Cardinality(DOMAIN cache) > CACHE_PRUNE_THRESHOLD
                stale == StaleKeys(cache, CACHE_TTL_DAYS, now) # {}
            IN  /\ cache' # cache => (above /\ stale /\ CACHE_AUTO_PRUNE)
                /\ (~above \/ ~stale \/ ~CACHE_AUTO_PRUNE) =>
                        (pruned' = 0 /\ cache' = cache)]_vars

\* What holds instead: auto_prune_if_needed prunes from the threshold on,
\* a cache holding exactly CACHE_PRUNE_THRESHOLD entries included.
AutoPruneFromThresholdOn ==
    [][lastCall'.op = "auto_prune" =>
            LET reached == Cardinality(DOMAIN cache) >= CACHE_PRUNE_THRESHOLD
                stale == StaleKeys(cache, CACHE_TTL_DAYS, now) # {}
            IN  IF reached /\ stale /\ CACHE_AUTO_PRUNE
                THEN /\ DOMAIN cache' = DOMAIN cache
                                            \ StaleKeys(cache, CACHE_TTL_DAYS, now)
                     /\ pruned' = Cardinality(StaleKeys(cache, CACHE_TTL_DAYS, now))
                ELSE pruned' = 0 /\ cache' = cache]_vars

----------------------------------------------------------------------------
(* Two threads calling VideoCache.get_new_videos on one VideoCache; the     *)
(* class takes no lock, so the steps of the two calls interleave            *)

Threads == {1, 2}
ThreadKey == MakeKey(<<"s1">>, "S01E01")
InsideCall(t) == th_pc[t] \in {"filtered", "entry"}
Other(t) == CHOOSE u \in Threads : u # t
Overlaps(t) == overlapped \/ InsideCall(Other(t))

\* cached_ids = self.get_cached_video_ids(key);
\* new_videos = [v for v in current_videos if v.video_id not in cached_ids]
ReadCachedIds(t) ==
    /\ th_pc[t] = "start"
    /\ th_cached_ids' = [th_cached_ids EXCEPT ![t] = GetCachedVideoIds(cache, ThreadKey)]
    /\ th_new_videos' = [th_new_videos EXCEPT ![t] =
                            NewVideos(th_videos[t], th_cached_ids'[t])]
    /\ th_pc' = [th_pc EXCEPT ![t] = "filtered"]
    /\ overlapped' = Overlaps(t)
    /\ UNCHANGED <<cacheVars, th_videos, th_existing_ids, notThread>>

\* _update_cache: entry = self._cache.get(key, {...});
\* existing_ids = set(entry.get('video_ids', []))
GetEntry(t) ==
    /\ th_pc[t] = "filtered"
    /\ th_existing_ids' = [th_existing_ids EXCEPT ![t] =
                                GetCachedVideoIds(cache, ThreadKey)]
    /\ th_pc' = [th_pc EXCEPT ![t] = "entry"]
    /\ overlapped' = Overlaps(t)
    /\ UNCHANGED <<cacheVars, th_videos, th_cached_ids, th_new_videos, notThread>>

\* _update_cache: entry['video_ids'] = list(existing_ids | set(...));
\* self._cache[key] = entry; self._save_cache(); return new_videos
StoreEntry(t) ==
    /\ th_pc[t] = "entry"
    /\ cache' = [k \in DOMAIN cache \cup {ThreadKey} |->
                    IF k = ThreadKey
                    THEN [video_ids |-> UnionIds(th_existing_ids[t], th_videos[t]),
                          last_checked |-> now]
                    ELSE cache[k]]
    /\ disk' = SaveCache(disk, cache', TRUE)
    /\ lastCall' = [op |-> "get", key |-> ThreadKey, cur |-> th_videos[t],
                    ret |-> th_new_videos[t]]
    /\ th_pc' = [th_pc EXCEPT ![t] = "returned"]
    /\ overlapped' = Overlaps(t)
    /\ UNCHANGED <<now, apiGhost, runGhost, loadVars, th_videos, th_cached_ids,
                   th_existing_ids, th_new_videos, notThread>>

InitThreads ==
    /\ FetchIdle /\ EpisodesIdle /\ TripIdle /\ ParserIdle /\ ExtractIdle /\ SearchIdle /\ PruneIdle /\ SharedIdle
    /\ disk \in {EmptyCache,
                 [k \in {ThreadKey} |-> [video_ids |-> {"a"}, last_checked |-> 0]]}
    /\ cache = disk
    /\ file = "mapping"
    /\ cache_type = "dict"
    /\ raised = "none"
    /\ last_write = "none"
    /\ lastCall = NoCall("init")
    /\ now = 0
    /\ track = Idle
    /\ returnedNew = [k \in Keys |-> {}]
    /\ newTwice = FALSE
    /\ newInTwoCalls = FALSE
    /\ runNo = 1
    /\ seen = [k \in Keys |-> [v \in VideoIds |-> "never"]]
    /\ missed = FALSE
    /\ duplicated = FALSE
    /\ ioFailed = FALSE
    /\ th_pc = [t \in Threads |-> "start"]
    /\ th_videos \in [Threads -> VideoLists]
    /\ th_cached_ids = [t \in Threads |-> {}]
    /\ th_existing_ids = [t \in Threads |-> {}]
    /\ th_new_videos = [t \in Threads |-> <<>>]
    /\ overlapped = FALSE

NextThreads ==
    \E t \in Threads :
        \/ ReadCachedIds(t)
        \/ GetEntry(t)
        \/ StoreEntry(t)

SpecThreads == InitThreads /\ [][NextThreads]_vars

BothReturned == \A t \in Threads : th_pc[t] = "returned"
SharedIds == Ids(th_videos[1]) \cap Ids(th_videos[2])

\* C29: under any interleaving of two get_new_videos calls on one key whose
\* current videos share an id, that id is reported as new by at most one of
\* the calls, and after both calls the stored id set holds the ids of both.
C29_CallsOnOneKeyAreSerialized ==
    BothReturned =>
        /\ \A id \in SharedIds :
                ~(id \in Ids(th_new_videos[1]) /\ id \in Ids(th_new_videos[2]))
        /\ Ids(th_videos[1]) \cup Ids(th_videos[2]) \subseteq cache[ThreadKey].video_ids

\* What holds instead: two calls of which one ends before the other begins
\* report a shared id once and store the ids of both.
CallsInTurnReportOnce ==
    (BothReturned /\ ~overlapped) =>
        /\ \A id \in SharedIds :
                ~(id \in Ids(th_new_videos[1]) /\ id \in Ids(th_new_videos[2]))
        /\ Ids(th_videos[1]) \cup Ids(th_videos[2]) \subseteq cache[ThreadKey].video_ids

----------------------------------------------------------------------------
(* Two VideoCache instances on one cache file (CACHE_FILE): each loads the  *)
(* document whole in __init__ and dumps its whole _cache in _save_cache     *)

Instances == {1, 2}

\* VideoCache.__init__ / _load_cache on a document that is a mapping
NewInstance(i) ==
    /\ inst_pc[i] = "none"
    /\ inst_cache' = [inst_cache EXCEPT ![i] = LoadCache(disk, TRUE)]
    /\ inst_pc' = [inst_pc EXCEPT ![i] = "loaded"]
    /\ UNCHANGED <<cacheVars, writer, notShared>>

\* get_new_videos on instance i: _update_cache changes the instance's own
\* _cache and _save_cache rewrites the document from it
InstanceGetNewVideos(i, series_name, episode_code, current_videos) ==
    LET key == MakeKey(series_name, episode_code)
        cached_ids == GetCachedVideoIds(inst_cache[i], key)
    IN  /\ inst_pc[i] = "loaded"
        /\ inst_cache' = [inst_cache EXCEPT ![i] =
                            UpdateCache(inst_cache[i], key, current_videos, now)]
        /\ disk' = SaveCache(disk, inst_cache'[i], TRUE)
        /\ lastCall' = [op |-> "get", key |-> key, cur |-> current_videos,
                        ret |-> NewVideos(current_videos, cached_ids)]
        /\ writer' = i
        /\ UNCHANGED <<cache, now, apiGhost, runGhost, loadVars, inst_pc, notShared>>

\* clear_cache(key) on instance i
InstanceClearCacheKey(i, key) ==
    /\ inst_pc[i] = "loaded"
    /\ inst_cache' = [inst_cache EXCEPT ![i] = RemoveKey(inst_cache[i], key)]
    /\ disk' = SaveCache(disk, inst_cache'[i], TRUE)
    /\ lastCall' = [NoCall("clear") EXCEPT !.key = key]
    /\ writer' = i
    /\ UNCHANGED <<cache, now, apiGhost, runGhost, loadVars, inst_pc, notShared>>

\* The process that holds instance i ends; a later one constructs it anew
EndInstance(i) ==
    /\ inst_pc[i] = "loaded"
    /\ inst_pc' = [inst_pc EXCEPT ![i] = "none"]
    /\ inst_cache' = [inst_cache EXCEPT ![i] = EmptyCache]
    /\ UNCHANGED <<cacheVars, writer, notShared>>

InitShared ==
    /\ FetchIdle /\ EpisodesIdle /\ TripIdle /\ ParserIdle /\ ExtractIdle /\ SearchIdle /\ PruneIdle /\ ThreadsIdle
    /\ disk \in {EmptyCache,
                 [k \in {ThreadKey} |-> [video_ids |-> {"a"}, last_checked |-> 0]]}
    /\ cache = EmptyCache
    /\ file = "mapping"
    /\ cache_type = "dict"
    /\ raised = "none"
    /\ last_write = "none"
    /\ lastCall = NoCall("init")
    /\ now = 0
    /\ track = Idle
    /\ returnedNew = [k \in Keys |-> {}]
    /\ newTwice = FALSE
    /\ newInTwoCalls = FALSE
    /\ runNo = 1
    /\ seen = [k \in Keys |-> [v \in VideoIds |-> "never"]]
    /\ missed = FALSE
    /\ duplicated = FALSE
    /\ ioFailed = FALSE
    /\ inst_pc = [i \in Instances |-> "none"]
    /\ inst_cache = [i \in Instances |-> EmptyCache]
    /\ writer = 0

NextShared ==
    \E i \in Instances :
        \/ NewInstance(i)
        \/ \E s \in Subjects, e \in EpisodeCodes, vs \in VideoLists :
                InstanceGetNewVideos(i, s, e, vs)
        \/ \E k \in Keys : InstanceClearCacheKey(i, k)
        \/ EndInstance(i)

SpecShared == InitShared /\ [][NextShared]_vars

\* every entry of the document, with every id stored in it, is still there
\* after the step
DocumentKeepsAll ==
    \A k \in DOMAIN disk :
        /\ k \in DOMAIN disk'
        /\ disk[k].video_ids \subseteq disk'[k].video_ids

\* C30: with several cache instances on one persisted document, a write that
\* is not an explicit clear removes no entry and no stored id from the
\* document, whichever instance wrote them.
C30_OnlyClearOrPruneRemoves ==
    [][lastCall'.op # "clear" => DocumentKeepsAll]_vars

\* What holds instead: a get_new_videos by an instance whose _cache equals
\* the document it is about to rewrite removes nothing.
UpToDateInstanceKeepsAll ==
    [][(writer' \in Instances /\ lastCall'.op = "get"
            /\ inst_cache[writer'] = disk) => DocumentKeepsAll]_vars

====
